---- MODULE Spec2Model ----
(***************************************************************************)
(* Model of the synchronisation core of the kernel:                        *)
(*   - SpinLock / ISpinLock and their guards (kernel/src/sync/spinlock.rs) *)
(*     over the reader/writer lock of blueos_infra::tinyrwlock and the     *)
(*     DisableInterruptGuard of crate::support;                            *)
(*   - the atomically reference-counted pointer TinyArc as used by         *)
(*     BusWrapper (kernel/src/devices/bus/mod.rs) and by static_arc!       *)
(*     (kernel/src/types.rs);                                              *)
(*   - the intrusive list behind UniqueListHead (kernel/src/types.rs);     *)
(*   - the offset adapters Relative and Nested (infra/src/intrusive.rs).   *)
(* Every thread runs on a CPU of its own: irq[t] is the interrupt-enable   *)
(* flag of the CPU of thread t.                                            *)
(***************************************************************************)
EXTENDS Integers, Sequences, FiniteSets, TLC

VARIABLES
    writers,    \* writers[l]: write holders recorded in the RwLock of lock l (0 or 1)
    readers,    \* readers[l]: read holders recorded in the RwLock of lock l
    irq,        \* irq[t]: TRUE iff interrupts are enabled on the CPU of thread t
    guard,      \* guard[t][g]: the guard value in guard variable g of thread t
    pc,         \* pc[t]: the call thread t is executing, and where it is in it
    hist,       \* summary of the current acquire/release episode of thread 1
    strong,     \* strong[a]: strong count of the TinyArcInner of bus a
    handles,    \* handles[t][a]: live BusWrapper handles of bus a owned by thread t
    apc,        \* apc[t]: the bus whose value t is about to release (0: none)
    released,   \* released[a]: number of times the value of bus a has been released
    drops,      \* 1 once a handle cloned from the static PTR has been dropped
    next,       \* next[c]: the forward link of list cell c (the head or a node)
    prev,       \* prev[c]: the backward link of list cell c
    cnt,        \* cnt[n]: strong count of the TinyArcInner of node n
    own,        \* own[n]: handles (Arc<T>) of node n that the threads own
    from_off,   \* From::offset() of the adapter pair under evaluation
    to_off,     \* To::offset() of the adapter pair under evaluation
    rel,        \* Some(Relative::offset()) once it has been evaluated
    s_off,      \* S::offset() of the adapter pair that Nested composes
    t_off,      \* T::offset() of the adapter pair that Nested composes
    overflow_checks, \* TRUE iff the build checks arithmetic overflow (and panics)
    nest,       \* Some(outcome of Nested::offset()) once it has been evaluated
    host,       \* address of the host object whose fields are located
    got_lock,   \* Some(address computed for the lock from that of the link)
    got_link,   \* Some(address computed for the link from that of the lock)
    data,       \* the value that SpinLock 1 protects
    local,      \* local[t]: Some(value thread t read in its critical section)
    done,       \* done[t]: critical sections thread t has completed
    io,         \* the arguments of a call of write_bytes / read_bytes, and what the
                \* peripheral does during the call
    out,        \* Some(outcome of that call) once it has returned
    tar,        \* the target address set in the I2C peripheral (0: none yet)
    i2c,        \* i2c[t]: the call of transaction thread t is in, and where
    ns,         \* the argument of delay_ns, as two 16-bit halves <<high, low>>
    rate,       \* blueos_kconfig::TICKS_PER_SECOND of the build
    slept,      \* Some(what delay_ns did) once it has been called
    devs,       \* the devices in the DeviceList of the bus, in iteration order
    bus         \* bus[t]: the call of register_device / probe_driver thread t is in

vars == <<writers, readers, irq, guard, pc, hist, strong, handles, apc, released, drops,
          next, prev, cnt, own, from_off, to_off, rel, s_off, t_off, overflow_checks,
          nest, host, got_lock, got_link, data, local, done, io, out, tar, i2c,
          ns, rate, slept, devs, bus>>
lockVars == <<writers, readers, irq, guard, pc, hist>>
arcVars == <<strong, handles, apc, released, drops>>
listVars == <<next, prev, cnt, own>>
relativeVars == <<from_off, to_off, rel>>
nestedVars == <<s_off, t_off, overflow_checks, nest>>
layoutVars == <<host, got_lock, got_link>>
adapterVars == <<relativeVars, nestedVars, layoutVars>>
csVars == <<data, local, done>>
bytesVars == <<io, out>>
i2cVars == <<tar, i2c>>
delayVars == <<ns, rate, slept>>
busVars == <<devs, bus>>
devVars == <<bytesVars, i2cVars, delayVars, busVars>>
dataVars == <<arcVars, listVars, adapterVars, csVars, devVars>>

----------------------------------------------------------------------------
(* Bounds of the model *)

NThreads == 2       \* threads contending for one SpinLock
NLocks == 2         \* locks a single thread nests
MaxGuards == 2      \* guard variables of the single nesting thread
NArcs == 2          \* buses, each created by Bus::new
MaxHandles == 3     \* handles of one bus alive at once

Threads == 1 .. NThreads
\* thread t + NThreads is the twin of thread t: it is given the calls of t on
\* another lock; AllThreads are the threads and their twins
Twin(t) == t + NThreads
AllThreads == Threads \cup {Twin(t) : t \in Threads}
Locks == 1 .. NLocks
Arcs == 1 .. NArcs
Slots == 1 .. MaxGuards

----------------------------------------------------------------------------
(* Option<T> *)

None == <<>>
Some(x) == <<x>>
IsSome(o) == o # None
Unwrap(o) == o[1]

----------------------------------------------------------------------------
(* blueos_infra::tinyrwlock::RwLock / IRwLock: the state machine            *)
(* {Unlocked, SharedLocked(n), ExclusiveLocked} of the specification.      *)

Unlocked(l) == writers[l] = 0 /\ readers[l] = 0
SharedLocked(l) == writers[l] = 0 /\ readers[l] >= 1
ExclusiveLocked(l) == writers[l] = 1 /\ readers[l] = 0

\* RwLock::try_write succeeds only from Unlocked
RwLock_try_write(l) == Unlocked(l)
\* RwLock::try_read succeeds from Unlocked and from SharedLocked(n)
RwLock_try_read(l) == writers[l] = 0

\* the lock state after a successful acquisition in the given mode
RwLock_acquired(l, mode) ==
    IF mode = "w"
    THEN /\ writers' = [writers EXCEPT ![l] = 1]
         /\ UNCHANGED readers
    ELSE /\ readers' = [readers EXCEPT ![l] = @ + 1]
         /\ UNCHANGED writers

\* Drop of RwLockWriteGuard / RwLockReadGuard
RwLock_released(l, mode) ==
    IF mode = "w"
    THEN /\ writers' = [writers EXCEPT ![l] = 0]
         /\ UNCHANGED readers
    ELSE /\ readers' = [readers EXCEPT ![l] = @ - 1]
         /\ UNCHANGED writers

----------------------------------------------------------------------------
(* crate::support::DisableInterruptGuard: new() records the interrupt      *)
(* state of the CPU and disables interrupts; drop restores the recorded    *)
(* state.  A guard value is modelled by the state it recorded.             *)

DisableInterruptGuard_new(t) == Some(irq[t])
\* interrupt state of the CPU after `o: Option<DisableInterruptGuard>` is dropped
DisableInterruptGuard_drop(o, cur) == IF IsSome(o) THEN Unwrap(o) ELSE cur

----------------------------------------------------------------------------
(* kernel/src/sync/spinlock.rs *)

\* lock 1, 3, .. are SpinLock<T>; lock 2, 4, .. are ISpinLock<T, A>
IsSpinLock(l) == l % 2 = 1

\* (write, try_irqsave_write and irqsave_write only call lock,
\* try_irqsave_lock and irqsave_lock)
SpinOps == {"try_lock", "lock", "try_write", "try_read", "read",
            "try_irqsave_lock", "irqsave_lock", "try_irqsave_read", "irqsave_read"}
ISpinOps == {"ilock", "iirqsave_lock", "iread", "iirqsave_read"}
OpsOf(l) == IF IsSpinLock(l) THEN SpinOps ELSE ISpinOps

\* the operations that create a DisableInterruptGuard before acquiring
OpIrq(op) == op \in {"try_irqsave_lock", "irqsave_lock", "try_irqsave_read",
                     "irqsave_read", "iirqsave_lock", "iirqsave_read"}
\* the operations that return Option<guard>
OpTry(op) == op \in {"try_lock", "try_write", "try_read",
                     "try_irqsave_lock", "try_irqsave_read"}

\* field declaration order of SpinLockGuard / SpinLockReadGuard: Rust drops
\* the fields of a struct in declaration order
GuardMutantLeak == <<"irq_guard">>
GuardMutantSwap == <<"irq_guard", "lock_guard">>
GuardMutantNoRestore == <<"lock_guard">>
SpinLockGuard == <<"lock_guard", "irq_guard">>

NoGuard == [l |-> 0, mode |-> "-", held |-> FALSE, irq_guard |-> None, via |-> FALSE]
Live(gd) == gd.held

\* SpinLock::try_lock: Some(SpinLockGuard { irq_guard: None, lock_guard }) iff
\* self.lock.try_write() succeeds
try_lock_mutant(l) == [ok |-> RwLock_try_read(l), mode |-> "w", irq_guard |-> None]
try_lock_always(l) == [ok |-> TRUE, mode |-> "w", irq_guard |-> None]
try_lock(l) == [ok |-> RwLock_try_write(l), mode |-> "w", irq_guard |-> None]

\* SpinLock::try_read: Some(SpinLockReadGuard { irq_guard: None, lock_guard }) iff
\* self.lock.try_read() succeeds
try_read_mutant(l) == [ok |-> Unlocked(l), mode |-> "r", irq_guard |-> None]
try_read(l) == [ok |-> RwLock_try_read(l), mode |-> "r", irq_guard |-> None]

\* SpinLock::try_write is try_lock
try_write_mutant(l) == [ok |-> RwLock_try_read(l), mode |-> "r", irq_guard |-> None]
try_write(l) == try_lock(l)

\* ISpinLock::lock / ISpinLock::read: one attempt of the busy wait of
\* IRwLock::write() / IRwLock::read()
ISpinLock_lock(l) == [ok |-> RwLock_try_write(l), mode |-> "w", irq_guard |-> None]
ISpinLock_read(l) == [ok |-> RwLock_try_read(l), mode |-> "r", irq_guard |-> None]

\* the attempt each operation makes (one iteration of its loop)
Attempt(op, l) ==
    CASE op \in {"try_lock", "lock", "try_irqsave_lock", "irqsave_lock"} -> try_lock(l)
      [] op = "try_write" -> try_write(l)
      [] op \in {"try_read", "read", "try_irqsave_read", "irqsave_read"} -> try_read(l)
      [] op \in {"ilock", "iirqsave_lock"} -> ISpinLock_lock(l)
      [] op \in {"iread", "iirqsave_read"} -> ISpinLock_read(l)

\* try_irqsave_lock / try_irqsave_read / ISpinLock::irqsave_*: the guard just
\* obtained gets the DisableInterruptGuard created on entry
irqsave_set_mutant(g_irq, irq_guard) == g_irq
irqsave_set(g_irq, irq_guard) == irq_guard

\* what a failed attempt does: "none" returns None (the `?` of try_*), "again"
\* starts the next iteration of `loop { try_irqsave_*() }` from its first
\* statement, "spin" repeats the attempt
OnFail_mutant(op) == "none"
OnFail(op) ==
    CASE OpTry(op) -> "none"
      [] op \in {"irqsave_lock", "irqsave_read"} -> "again"
      [] OTHER -> "spin"

\* SpinLockGuard::take_irq_guard / SpinLockReadGuard::take_irq_guard:
\* self.irq_guard = other.irq_guard.take(); the assignment drops the value
\* self.irq_guard held before
take_irq_guard(self_irq, other_irq) ==
    [self |-> other_irq, other |-> None, dropped |-> self_irq]

\* SpinLockGuard::forget_irq: core::mem::forget(self.irq_guard.take())
forget_irq_mutant(self_irq) == [self |-> None, dropped |-> self_irq]
forget_irq(self_irq) == [self |-> None, dropped |-> None]

\* SpinLock::reader_count / writer_count: self.lock.reader_count() as usize,
\* self.lock.writer_count() as usize
reader_count_mutant(l) == readers[l] + writers[l]
reader_count(l) == readers[l]
writer_count(l) == writers[l]

----------------------------------------------------------------------------
(* Threads *)

Idle == [op |-> "idle", ph |-> "-", l |-> 0, g |-> 0, h |-> 0,
         irq_guard |-> None, todo |-> <<>>, res |-> "-"]

\* hist summarises the episode that began when thread 1, holding no guard, called
\* an acquisition: base is the interrupt state at that call; ep is "clean"
\* while every drop was in reverse order of acquisition and no take_irq_guard
\* or forget_irq was called, "moved" when exactly two guards were acquired,
\* nested, and take_irq_guard was called once on them, "other" otherwise;
\* acq counts the guards acquired (3: three or more), depth is the largest
\* number of guards obtained by an irqsave operation that were alive together
NoHist == [base |-> TRUE, ep |-> "clean", acq |-> 0, depth |-> 0]
Other == [base |-> TRUE, ep |-> "other", acq |-> 0, depth |-> 0]

\* the thread whose episodes hist summarises
Traced(t) == t = 1

HoldsNothing(t) == \A g \in Slots : guard[t][g] = NoGuard
Quiescent(t) == pc[t] = Idle /\ HoldsNothing(t)

\* the lowest free guard variable among G
FreeSlot(t, G, g) ==
    /\ g \in G
    /\ guard[t][g] = NoGuard
    /\ \A g2 \in G : g2 < g => guard[t][g2] # NoGuard

\* the guards of t obtained by an irqsave operation that hold their lock
IrqDepth(t) == Cardinality({g \in Slots : guard[t][g].held /\ guard[t][g].via})

Inc(n, cap) == IF n < cap THEN n + 1 ELSE cap

\* thread t calls `op` on lock l; the guard returned goes to guard variable g
Call(t, op, l, g) ==
    /\ pc[t] = Idle
    /\ op \in OpsOf(l)
    /\ pc' = [pc EXCEPT ![t] = [Idle EXCEPT !.op = op, !.l = l, !.g = g,
                                           !.ph = IF OpIrq(op) THEN "enter" ELSE "try"]]
    /\ hist' = IF Traced(t) /\ HoldsNothing(t)
               THEN [NoHist EXCEPT !.base = irq[t]]
               ELSE hist
    /\ UNCHANGED <<writers, readers, irq, guard, dataVars>>

\* let irq_guard = DisableInterruptGuard::new(); compiler_fence(SeqCst);
Disable(t) ==
    /\ pc[t].ph = "enter"
    /\ irq' = [irq EXCEPT ![t] = FALSE]
    /\ pc' = [pc EXCEPT ![t].ph = "try", ![t].irq_guard = DisableInterruptGuard_new(t)]
    /\ UNCHANGED <<writers, readers, guard, hist, dataVars>>

(* kernel/src/types.rs: UniqueListHead::lock, insert and detach begin with   *)
(* O::get().irqsave_lock()                                                  *)
UniqueListHead_lock == "irqsave_lock"

\* UniqueListHead::insert and UniqueListHead::detach take the lock of the
\* owner themselves
OneShots == {"insert", "detach"}
\* the SpinLock operation a call begins with
LockOp(op) == IF op \in OneShots THEN UniqueListHead_lock ELSE op

\* one acquisition attempt, and what the operation does with its result
Try(t) ==
    /\ pc[t].ph = "try"
    /\ pc[t].op \in SpinOps \cup ISpinOps \cup OneShots
    /\ UNCHANGED dataVars
    /\ LET op == LockOp(pc[t].op)
           l == pc[t].l
           r == Attempt(op, l)
       IN IF r.ok
          THEN /\ RwLock_acquired(l, r.mode)
               /\ guard' = [guard EXCEPT ![t][pc[t].g] =
                     [l |-> l, mode |-> r.mode, held |-> TRUE, via |-> OpIrq(op),
                      irq_guard |-> IF OpIrq(op)
                                    THEN irqsave_set(r.irq_guard, pc[t].irq_guard)
                                    ELSE r.irq_guard]]
               /\ pc' = [pc EXCEPT ![t].ph = IF pc[t].op \in OneShots THEN "body"
                                               ELSE "ret",
                                   ![t].res = "Some", ![t].irq_guard = None]
               /\ hist' = IF ~Traced(t) THEN hist
                          ELSE IF hist.ep = "clean"
                          THEN [hist EXCEPT !.acq = Inc(@, 3),
                                            !.depth = IF OpIrq(op) /\ IrqDepth(t) >= @
                                                      THEN IrqDepth(t) + 1 ELSE @]
                          ELSE Other
               /\ UNCHANGED irq
          ELSE /\ irq' = [irq EXCEPT ![t] =
                     IF OnFail(op) = "spin" THEN @
                     ELSE DisableInterruptGuard_drop(pc[t].irq_guard, @)]
               /\ pc' = [pc EXCEPT ![t] =
                     CASE OnFail(op) = "none" ->
                            [@ EXCEPT !.ph = "ret", !.res = "None", !.irq_guard = None]
                       [] OnFail(op) = "again" ->
                            [@ EXCEPT !.ph = "enter", !.irq_guard = None]
                       [] OTHER -> @]
               /\ UNCHANGED <<writers, readers, guard, hist>>

\* the call returns to its caller
Return(t) ==
    /\ pc[t].ph = "ret"
    /\ pc' = [pc EXCEPT ![t] = Idle]
    /\ UNCHANGED <<writers, readers, irq, guard, hist, dataVars>>

\* drop(guard variable g): the fields are dropped one by one
DropCall(t, g) ==
    /\ pc[t] = Idle
    /\ guard[t][g] # NoGuard
    /\ pc' = [pc EXCEPT ![t] = [Idle EXCEPT !.op = "drop", !.ph = "fields", !.g = g,
                                           !.l = guard[t][g].l, !.todo = SpinLockGuard]]
    /\ hist' = IF /\ Traced(t)
                  /\ hist.ep = "clean"
                  /\ \E g2 \in Slots : g2 > g /\ guard[t][g2] # NoGuard
               THEN Other ELSE hist
    /\ UNCHANGED <<writers, readers, irq, guard, dataVars>>

DropField(t) ==
    /\ pc[t].op = "drop"
    /\ pc[t].todo # <<>>
    /\ LET g == pc[t].g
           gd == guard[t][g]
           f == Head(pc[t].todo)
           rest == Tail(pc[t].todo)
           after == IF f = "lock_guard"
                    THEN [gd EXCEPT !.held = FALSE]
                    ELSE [gd EXCEPT !.irq_guard = None]
       IN /\ IF f = "lock_guard"
             THEN RwLock_released(gd.l, gd.mode) /\ UNCHANGED irq
             ELSE /\ irq' = [irq EXCEPT ![t] = DisableInterruptGuard_drop(gd.irq_guard, @)]
                  /\ UNCHANGED <<writers, readers, dataVars>>
          /\ guard' = [guard EXCEPT ![t][g] = IF rest = <<>> THEN NoGuard ELSE after]
          /\ pc' = [pc EXCEPT ![t] = IF rest = <<>> THEN Idle ELSE [@ EXCEPT !.todo = rest]]
          /\ UNCHANGED <<hist, dataVars>>

\* a.take_irq_guard(&mut b) on two live guards of the same type
TakeCall(t, a, b) ==
    /\ pc[t] = Idle
    /\ a # b
    /\ Live(guard[t][a]) /\ Live(guard[t][b])
    /\ guard[t][a].mode = guard[t][b].mode
    /\ pc' = [pc EXCEPT ![t] = [Idle EXCEPT !.op = "take_irq_guard", !.ph = "exec",
                                           !.g = a, !.h = b]]
    /\ UNCHANGED <<writers, readers, irq, guard, hist, dataVars>>

TakeExec(t) ==
    /\ pc[t].op = "take_irq_guard"
    /\ pc[t].ph = "exec"
    /\ LET a == pc[t].g
           b == pc[t].h
           r == take_irq_guard(guard[t][a].irq_guard, guard[t][b].irq_guard)
       IN /\ guard' = [guard EXCEPT ![t][a].irq_guard = r.self,
                                    ![t][b].irq_guard = r.other]
          /\ irq' = [irq EXCEPT ![t] = DisableInterruptGuard_drop(r.dropped, @)]
    /\ pc' = [pc EXCEPT ![t].ph = "ret"]
    /\ hist' = IF ~Traced(t) THEN hist
               ELSE IF hist.ep = "clean" /\ hist.acq = 2
               THEN [hist EXCEPT !.ep = "moved"] ELSE Other
    /\ UNCHANGED <<writers, readers, dataVars>>

\* g.forget_irq() on a live write guard
ForgetCall(t, g) ==
    /\ pc[t] = Idle
    /\ Live(guard[t][g])
    /\ guard[t][g].mode = "w"
    /\ pc' = [pc EXCEPT ![t] = [Idle EXCEPT !.op = "forget_irq", !.ph = "exec", !.g = g]]
    /\ UNCHANGED <<writers, readers, irq, guard, hist, dataVars>>

ForgetExec(t) ==
    /\ pc[t].op = "forget_irq"
    /\ pc[t].ph = "exec"
    /\ LET g == pc[t].g
           r == forget_irq(guard[t][g].irq_guard)
       IN /\ guard' = [guard EXCEPT ![t][g].irq_guard = r.self]
          /\ irq' = [irq EXCEPT ![t] = DisableInterruptGuard_drop(r.dropped, @)]
    /\ pc' = [pc EXCEPT ![t].ph = "ret"]
    /\ hist' = IF Traced(t) THEN Other ELSE hist
    /\ UNCHANGED <<writers, readers, dataVars>>

----------------------------------------------------------------------------
(* Critical sections: a thread that holds the guard g of SpinLock 1 runs     *)
(* `*g += 1`, a read through Deref followed by a write through DerefMut.     *)

MaxRounds == 2      \* critical sections one thread runs

\* SpinLockGuard::deref: self.lock_guard.deref(), the protected value as it is
SpinLockGuard_deref(value) == value
\* SpinLockGuard::deref_mut: self.lock_guard.deref_mut(), through which x is
\* stored as the protected value
SpinLockGuard_deref_mut(value, x) == x

\* the write guards of SpinLock 1 that thread t holds
CsGuards(t) == {g \in Slots : Live(guard[t][g]) /\ guard[t][g].l = 1
                                 /\ guard[t][g].mode = "w"}

\* thread t reads the protected value through its guard
CsRead(t) ==
    /\ pc[t] = Idle
    /\ CsGuards(t) # {}
    /\ local[t] = None
    /\ done[t] < MaxRounds
    /\ local' = [local EXCEPT ![t] = Some(SpinLockGuard_deref(data))]
    /\ UNCHANGED <<data, done, lockVars, arcVars, listVars, adapterVars, devVars>>

\* thread t stores the value it read, plus one, through its guard
CsWrite(t) ==
    /\ pc[t] = Idle
    /\ CsGuards(t) # {}
    /\ local[t] # None
    /\ data' = SpinLockGuard_deref_mut(data, Unwrap(local[t]) + 1)
    /\ local' = [local EXCEPT ![t] = None]
    /\ done' = [done EXCEPT ![t] = @ + 1]
    /\ UNCHANGED <<lockVars, arcVars, listVars, adapterVars, devVars>>

----------------------------------------------------------------------------
(* blueos_infra::tinyarc::TinyArc<T>: a handle to a heap control block       *)
(* TinyArcInner { strong count, value }.  new sets the count to 1, clone is  *)
(* an atomic increment, drop is an atomic decrement that releases the value  *)
(* and its storage when it took the count from 1 to 0.                       *)

TinyArc_new == 1
TinyArc_clone(count) == count + 1
\* fetch_sub(1): the new count, and whether this drop was the last one
TinyArc_drop(count) == [count |-> count - 1, last |-> count = 1]

(* kernel/src/devices/bus/mod.rs *)

\* Bus::new: intf: BusWrapper(TinyArc::new(SpinLock::new(intf)))
Bus_new_mutant == TinyArc_new - 1
Bus_new == TinyArc_new

\* BusWrapper::clone: BusWrapper(self.0.clone())
BusWrapper_clone_mutant(count) == count
BusWrapper_clone(count) == TinyArc_clone(count)

(* kernel/src/types.rs: static_arc! *)

\* TinyArcInner::const_new(val): a control block built in a static initializer
\* starts with the count of the one handle made from it
ArcInner_const_new == TinyArc_new

\* static CTRL_BLOCK: ArcInner<$ty> = ArcInner::const_new($val): the control
\* block is a static item next to the NArcs heap control blocks of the buses
CTRL_BLOCK == NArcs + 1
AllArcs == Arcs \cup {CTRL_BLOCK}

\* the strong count static_arc! starts with: that of CTRL_BLOCK
static_arc_mutant == ArcInner_const_new - 1
static_arc == ArcInner_const_new

\* pub(super) static PTR: Arc<$ty> = Arc::const_new(&CTRL_BLOCK): the handles
\* of a that are static items, which are never dropped
PTR(a) == IF a = CTRL_BLOCK THEN 1 ELSE 0

\* the handles of a that threads own
TotalHandles(a) == LET S[n \in 0 .. NThreads] ==
                           IF n = 0 THEN 0 ELSE S[n - 1] + handles[n][a]
                   IN S[NThreads]

\* all live handles of a
LiveHandles(a) == PTR(a) + TotalHandles(a)

\* thread t clones a BusWrapper of bus a that it owns, or a handle of the
\* static control block (PTR.clone() is open to every thread)
ArcClone(t, a) ==
    /\ apc[t] = 0
    /\ handles[t][a] >= 1 \/ PTR(a) >= 1
    /\ LiveHandles(a) < MaxHandles
    /\ strong' = [strong EXCEPT ![a] = IF a = CTRL_BLOCK THEN TinyArc_clone(@)
                                       ELSE BusWrapper_clone(@)]
    /\ handles' = [handles EXCEPT ![t][a] = @ + 1]
    /\ UNCHANGED <<apc, released, drops, lockVars, listVars, adapterVars, csVars, devVars>>

\* thread t moves a handle of a that it owns to thread u
ArcSend(t, u, a) ==
    /\ apc[t] = 0
    /\ t # u
    /\ handles[t][a] >= 1
    /\ handles' = [handles EXCEPT ![t][a] = @ - 1, ![u][a] = @ + 1]
    /\ UNCHANGED <<strong, apc, released, drops, lockVars, listVars, adapterVars, csVars, devVars>>

\* thread t drops a handle of a that it owns: the decrement of TinyArc::drop
ArcDrop(t, a) ==
    /\ apc[t] = 0
    /\ handles[t][a] >= 1
    /\ LET r == TinyArc_drop(strong[a])
       IN /\ strong' = [strong EXCEPT ![a] = r.count]
          /\ apc' = [apc EXCEPT ![t] = IF r.last THEN a ELSE 0]
    /\ handles' = [handles EXCEPT ![t][a] = @ - 1]
    /\ drops' = IF a = CTRL_BLOCK THEN 1 ELSE drops
    /\ UNCHANGED <<released, lockVars, listVars, adapterVars, csVars, devVars>>

\* the drop that took the count to zero releases the value and its storage
ArcRelease(t) ==
    /\ apc[t] # 0
    /\ released' = [released EXCEPT ![apc[t]] = @ + 1]
    /\ apc' = [apc EXCEPT ![t] = 0]
    /\ UNCHANGED <<strong, handles, drops, lockVars, listVars, adapterVars, csVars, devVars>>

----------------------------------------------------------------------------
(* Intrusive list: blueos_infra::list::typed_atomic_ilist::AtomicListHead   *)
(* and blueos_infra::tinyarc::TinyArcList.  The cells of a list are its     *)
(* head and the nodes embedded in refcounted host objects; a cell that is   *)
(* in no list has neither link.                                             *)

NNodes == 2         \* host objects that can be linked
MaxCnt == 2         \* strong count of one host object

Nodes == 1 .. NNodes
\* the AtomicIlistHead inside the SpinLock that StaticListOwner::get() returns
ListHead == 0
Cells == {ListHead} \cup Nodes
\* the SpinLock that StaticListOwner::get() returns
OwnerLock == 1

Links == [next |-> next, prev |-> prev]
NoLinks == [next |-> [c \in Cells |-> None], prev |-> [c \in Cells |-> None]]

IsDetached(ls, c) == ls.next[c] = None /\ ls.prev[c] = None

RECURSIVE LastCell(_, _)
LastCell(ls, c) == IF ls.next[c] = None THEN c ELSE LastCell(ls, Unwrap(ls.next[c]))

RECURSIVE FwdFrom(_, _)
FwdFrom(ls, c) ==
    <<c>> \o (IF ls.next[c] = None THEN <<>> ELSE FwdFrom(ls, Unwrap(ls.next[c])))
RECURSIVE BwdFrom(_, _)
BwdFrom(ls, c) ==
    <<c>> \o (IF ls.prev[c] = None THEN <<>> ELSE BwdFrom(ls, Unwrap(ls.prev[c])))

\* forward iteration from the head, backward iteration from the last cell
Forward(ls) == FwdFrom(ls, ListHead)
Backward(ls) == BwdFrom(ls, LastCell(ls, ListHead))

\* the cell a node inserted after `other` is linked behind: nodes inserted
\* after a head follow the nodes inserted before them (head, A, B)
InsertPoint(ls, other) == LastCell(ls, other)

\* insert_after writes the links of the node, then those of its neighbours
link_node(ls, at, me) == [ls EXCEPT !.prev[me] = Some(at), !.next[me] = ls.next[at]]
link_neighbours(ls, at, me) ==
    [next |-> [ls.next EXCEPT ![at] = Some(me)],
     prev |-> IF ls.next[me] = None THEN ls.prev
              ELSE [ls.prev EXCEPT ![Unwrap(ls.next[me])] = Some(me)]]

\* AtomicListHead::insert_after(other, me): rejected unless me is detached
AtomicIlistHead_insert_after(ls, other, me) ==
    IF IsDetached(ls, me)
    THEN [ok |-> TRUE,
          mid |-> link_node(ls, InsertPoint(ls, other), me),
          ls |-> link_neighbours(link_node(ls, InsertPoint(ls, other), me),
                                 InsertPoint(ls, other), me)]
    ELSE [ok |-> FALSE, mid |-> ls, ls |-> ls]

\* detach writes the links of the neighbours, then those of the node
unlink_neighbours(ls, me) ==
    [next |-> IF ls.prev[me] = None THEN ls.next
              ELSE [ls.next EXCEPT ![Unwrap(ls.prev[me])] = ls.next[me]],
     prev |-> IF ls.next[me] = None THEN ls.prev
              ELSE [ls.prev EXCEPT ![Unwrap(ls.next[me])] = ls.prev[me]]]
unlink_node(ls, me) == [ls EXCEPT !.next[me] = None, !.prev[me] = None]

\* AtomicListHead::detach(me): a no-op returning false when me is detached
AtomicIlistHead_detach(ls, me) ==
    IF IsDetached(ls, me)
    THEN [ok |-> FALSE, mid |-> ls, ls |-> ls]
    ELSE [ok |-> TRUE,
          mid |-> unlink_neighbours(ls, me),
          ls |-> unlink_node(unlink_neighbours(ls, me), me)]

\* TinyArcList::insert_after(other, me: TinyArc<T>): the handle passed is
\* consumed; when the node is linked the handle becomes the share of the list
\* (the count is left alone), when it is rejected the handle is dropped
ArcList_insert_after(ls, other, me, count) ==
    LET r == AtomicIlistHead_insert_after(ls, other, me)
    IN [ok |-> r.ok, mid |-> r.mid, ls |-> r.ls, consumed |-> 1,
        count |-> IF r.ok THEN count ELSE TinyArc_drop(count).count]

\* TinyArcList::detach(me: &mut TinyArc<T>): when the node was unlinked the
\* share of the list is released; the handle of the caller is only borrowed
ArcList_detach(ls, me, count) ==
    LET r == AtomicIlistHead_detach(ls, me)
    IN [ok |-> r.ok, mid |-> r.mid, ls |-> r.ls, consumed |-> 0,
        count |-> IF r.ok THEN TinyArc_drop(count).count ELSE count]

(* kernel/src/types.rs: UniqueListHead, UniqueListHeadAccessGuard *)

\* UniqueListHeadAccessGuard::detach: ArcList::detach(me)
UniqueListHeadAccessGuard_detach_mutant(ls, me, count) ==
    [ArcList_detach(ls, me, count) EXCEPT !.ok = TRUE]
AccessGuard_detach_keeps_share(ls, me, count) ==
    [ArcList_detach(ls, me, count) EXCEPT !.count = count]
UniqueListHeadAccessGuard_detach(ls, me, count) == ArcList_detach(ls, me, count)

\* UniqueListHeadAccessGuard::insert: ArcList::insert_after(&mut *self.0, me)
UniqueListHeadAccessGuard_insert_mutant(ls, me, count) ==
    [ok |-> TRUE, mid |-> link_node(ls, ListHead, me),
     ls |-> link_neighbours(link_node(ls, ListHead, me), ListHead, me),
     consumed |-> 1, count |-> count]
UniqueListHeadAccessGuard_insert(ls, me, count) ==
    ArcList_insert_after(ls, ListHead, me, count)

\* UniqueListHead::detach: let _guard = O::get().irqsave_lock();
\* ArcList::detach(me)
UniqueListHead_detach_mutant(ls, me, count) ==
    [ok |-> FALSE, mid |-> ls, ls |-> ls, consumed |-> 0, count |-> count]
UniqueListHead_detach(ls, me, count) == ArcList_detach(ls, me, count)

\* UniqueListHead::insert: let mut head = O::get().irqsave_lock();
\* ArcList::insert_after(&mut *head, me)
UniqueListHead_insert_mutant(ls, me, count) ==
    [ArcList_insert_after(ls, ListHead, me, count) EXCEPT
        !.count = TinyArc_clone(count)]
UniqueListHead_insert(ls, me, count) == ArcList_insert_after(ls, ListHead, me, count)

\* the methods of the access guard
GuardOps == {"guard_insert", "guard_detach"}
ListOps == OneShots \cup GuardOps

\* what the list operation `op` on node me does in the current state
ListCallResult(op, me) ==
    CASE op = "insert" -> UniqueListHead_insert(Links, me, cnt[me])
      [] op = "detach" -> UniqueListHead_detach(Links, me, cnt[me])
      [] op = "guard_insert" -> UniqueListHeadAccessGuard_insert(Links, me, cnt[me])
      [] op = "guard_detach" -> UniqueListHeadAccessGuard_detach(Links, me, cnt[me])

\* the second half of the link writes of a successful operation
SecondHalf(op, me) ==
    IF op \in {"insert", "guard_insert"}
    THEN link_neighbours(Links, Unwrap(prev[me]), me)
    ELSE unlink_node(Links, me)

\* Arc<T> is Send: a handle of a node is at the disposal of every thread
\* thread t clones a handle of node n
NodeClone(t, n) ==
    /\ pc[t] = Idle
    /\ own[n] >= 1
    /\ cnt[n] < MaxCnt
    /\ cnt' = [cnt EXCEPT ![n] = TinyArc_clone(@)]
    /\ own' = [own EXCEPT ![n] = @ + 1]
    /\ UNCHANGED <<next, prev, lockVars, arcVars, adapterVars, csVars, devVars>>

\* thread t drops a handle of node n
NodeDrop(t, n) ==
    /\ pc[t] = Idle
    /\ own[n] >= 1
    /\ cnt' = [cnt EXCEPT ![n] = TinyArc_drop(@).count]
    /\ own' = [own EXCEPT ![n] = @ - 1]
    /\ UNCHANGED <<next, prev, lockVars, arcVars, adapterVars, csVars, devVars>>

\* thread t calls UniqueListHead::insert(me) or UniqueListHead::detach(&mut me);
\* the guard it takes lives in guard variable g.  The handle it passes is one
\* of those at the disposal of the threads when the list is operated on.
ListCall(t, op, g) ==
    /\ pc[t] = Idle
    /\ op \in OneShots
    /\ pc' = [pc EXCEPT ![t] = [Idle EXCEPT !.op = op, !.l = OwnerLock, !.g = g,
                                           !.ph = IF OpIrq(UniqueListHead_lock)
                                                  THEN "enter" ELSE "try"]]
    /\ hist' = IF Traced(t) /\ HoldsNothing(t)
               THEN [NoHist EXCEPT !.base = irq[t]]
               ELSE hist
    /\ UNCHANGED <<writers, readers, irq, guard, dataVars>>

\* thread t calls insert(me) or detach(&mut me) on the access guard that
\* UniqueListHead::lock() returned into guard variable g
GuardCall(t, op, g) ==
    /\ pc[t] = Idle
    /\ op \in GuardOps
    /\ Live(guard[t][g])
    /\ guard[t][g].l = OwnerLock
    /\ guard[t][g].mode = "w"
    /\ pc' = [pc EXCEPT ![t] = [Idle EXCEPT !.op = op, !.l = OwnerLock, !.g = g,
                                           !.ph = "body"]]
    /\ UNCHANGED <<writers, readers, irq, guard, hist, dataVars>>

\* the end of a list operation: a method of the access guard returns, a call
\* of UniqueListHead drops its guard
Finished(t, n, ok) ==
    IF pc[t].op \in GuardOps
    THEN [pc[t] EXCEPT !.ph = "ret", !.h = n, !.res = IF ok THEN "true" ELSE "false"]
    ELSE [pc[t] EXCEPT !.op = "drop", !.ph = "fields", !.todo = SpinLockGuard,
                       !.h = 0, !.res = IF ok THEN "true" ELSE "false"]

\* ArcList::insert_after / ArcList::detach on a handle of node n, up to the
\* first half of the link writes; an operation without effect ends here
ListStep(t, n) ==
    /\ pc[t].op \in ListOps
    /\ pc[t].ph = "body"
    /\ own[n] >= 1
    /\ LET r == ListCallResult(pc[t].op, n)
       IN /\ next' = r.mid.next
          /\ prev' = r.mid.prev
          /\ cnt' = [cnt EXCEPT ![n] = r.count]
          /\ own' = [own EXCEPT ![n] = @ - r.consumed]
          /\ pc' = [pc EXCEPT ![t] = IF r.ok THEN [@ EXCEPT !.ph = "half", !.h = n]
                                     ELSE Finished(t, n, FALSE)]
    /\ UNCHANGED <<writers, readers, irq, guard, hist, arcVars, adapterVars, csVars, devVars>>

\* the second half of the link writes
ListFinish(t) ==
    /\ pc[t].op \in ListOps
    /\ pc[t].ph = "half"
    /\ next' = SecondHalf(pc[t].op, pc[t].h).next
    /\ prev' = SecondHalf(pc[t].op, pc[t].h).prev
    /\ pc' = [pc EXCEPT ![t] = Finished(t, pc[t].h, TRUE)]
    /\ UNCHANGED <<cnt, own, writers, readers, irq, guard, hist, arcVars, adapterVars, csVars, devVars>>

(* kernel/src/types.rs: test_intrusive_mutex_list_head *)

\* node_lock: the ISpinLock embedded in the host object of cell c
node_lock(c) == 2 * (c + 1)
AllLocks == Locks \cup {node_lock(c) : c \in Cells}

\* L::insert_after(&mut head_lock, &mut lock_a) with L = AtomicIlistHead: the
\* host objects are only borrowed through their lock guards
test_insert_mutant(ls, me, count) ==
    [ok |-> AtomicIlistHead_insert_after(ls, ListHead, me).ok,
     ls |-> AtomicIlistHead_insert_after(ls, ListHead, me).ls,
     count |-> TinyArc_clone(count)]
test_insert(ls, me, count) ==
    [ok |-> AtomicIlistHead_insert_after(ls, ListHead, me).ok,
     ls |-> AtomicIlistHead_insert_after(ls, ListHead, me).ls,
     count |-> count]

\* the guard variable of t that holds the write guard of lock l, if any
HeldIn(t, l) == {g \in Slots : Live(guard[t][g]) /\ guard[t][g].l = l
                               /\ guard[t][g].mode = "w"}

\* thread t links node n after the head with the raw insert_after, holding the
\* guards of the embedded locks of both
RawInsert(t, n) ==
    /\ pc[t] = Idle
    /\ HeldIn(t, node_lock(ListHead)) # {}
    /\ HeldIn(t, node_lock(n)) # {}
    /\ LET r == test_insert(Links, n, cnt[n])
       IN /\ next' = r.ls.next
          /\ prev' = r.ls.prev
          /\ cnt' = [cnt EXCEPT ![n] = r.count]
    /\ UNCHANGED <<own, lockVars, arcVars, adapterVars, csVars, devVars>>

----------------------------------------------------------------------------
(* infra/src/intrusive.rs: offset adapters.  usize is UsizeBits wide.       *)

UsizeBits == 3
UsizeRange == 2 ^ UsizeBits
Usize == 0 .. UsizeRange - 1

\* usize::wrapping_sub
wrapping_sub(a, b) == (a - b + UsizeRange) % UsizeRange

\* <Relative<T, From, To, S> as Adapter<S>>::offset()
Relative_offset_saturating(from, to) == IF from >= to THEN from - to ELSE 0
Relative_offset_mutant(from, to) == wrapping_sub(to, from)
Relative_offset(from, to) == wrapping_sub(from, to)

\* #[repr(C)] struct Foo { a: u32, b: u32 }: size_of::<u32>() and the offsets
\* offset_of!(Foo, a), offset_of!(Foo, b)
size_of_u32 == 4
Foo_A_offset == 0
Foo_B_offset == Foo_A_offset + size_of_u32

\* Relative::<T, From, To, S>::offset() is evaluated for the pair drawn
EvalRelative ==
    /\ rel = None
    /\ rel' = Some(Relative_offset(from_off, to_off))
    /\ UNCHANGED <<from_off, to_off, nestedVars, layoutVars, lockVars, arcVars, listVars,
                   csVars, devVars>>

\* usize `+`: the outcome of a + b in a build that checks arithmetic overflow
\* (it panics) and in one that does not (it wraps)
Returned(n) == [panic |-> FALSE, value |-> n]
Panic == [panic |-> TRUE, value |-> 0]
usize_add(a, b, checked) ==
    IF a + b < UsizeRange THEN Returned(a + b)
    ELSE IF checked THEN Panic
    ELSE Returned((a + b) % UsizeRange)

\* <Nested<P, S, N, T> as Adapter<P>>::offset(): S::offset() + T::offset()
Nested_offset_mutant(s, t, checked) == usize_add(s, 0, checked)
Nested_offset(s, t, checked) == usize_add(s, t, checked)

\* Nested::<P, S, N, T>::offset() is evaluated for the pair drawn, any number
\* of times
EvalNested ==
    /\ nest' = Some(Nested_offset(s_off, t_off, overflow_checks))
    /\ UNCHANGED <<s_off, t_off, overflow_checks, relativeVars, layoutVars, lockVars,
                   arcVars, listVars, csVars, devVars>>

(* kernel/src/sync/spinlock.rs: ISpinLock<T, A>, and kernel/src/types.rs:   *)
(* Foobar { node, node_lock }                                               *)

\* ISpinLockOffset::offset(): offset_of!(ISpinLock<T, A>, lock), the only field
ISpinLockOffset == 0

\* the adapter of the IRwLock inside ISpinLock<T, A>:
\* NestedAdapter<T, A, ISpinLock<T, A>, ISpinLockOffset<T, A>>
ISpinLock_adapter_mutant(a, checked) == Nested_offset(a, a, checked)
ISpinLock_adapter(a, checked) == Nested_offset(a, ISpinLockOffset, checked)

\* the adapter A of Foobar.node_lock:
\* RelativeAdapter<Foobar, Lock, Node, AtomicIlistHead<Foobar, Node>>
Foobar_node_lock_mutant(Lock, Node) == Relative_offset(Node, Lock)
Foobar_node_lock(Lock, Node) == Relative_offset(Lock, Node)

\* the composed offset between the link Foobar.node and the IRwLock of
\* Foobar.node_lock, for the field offsets Lock and Node
composed_offset(Lock, Node, checked) ==
    ISpinLock_adapter(Foobar_node_lock(Lock, Node), checked)

\* usize::wrapping_add
wrapping_add(a, b) == (a + b) % UsizeRange

\* blueos_infra::tinyrwlock::IRwLock<T, A>: the protected T is found at the
\* address of the lock minus A::offset(), the lock at the address of T plus
\* A::offset(); nothing is read from memory
IRwLock_data(lock_addr, off) == wrapping_sub(lock_addr, off)
IRwLock_of(link_addr, off) == wrapping_add(link_addr, off)

\* the addresses of the two fields of the host object at `host`: from_off is
\* Lock::offset(), to_off is Node::offset()
lock_address == host + from_off + ISpinLockOffset
link_address == host + to_off

\* from a reference to the link, the lock of the same host is located
LocateLock ==
    /\ got_lock = None
    /\ ~composed_offset(from_off, to_off, overflow_checks).panic
    /\ got_lock' = Some(IRwLock_of(link_address,
                            composed_offset(from_off, to_off, overflow_checks).value))
    /\ UNCHANGED <<host, got_link, relativeVars, nestedVars, lockVars, arcVars, listVars,
                   csVars, devVars>>

\* from a reference to the lock, the link it protects is located
LocateLink ==
    /\ got_link = None
    /\ ~composed_offset(from_off, to_off, overflow_checks).panic
    /\ got_link' = Some(IRwLock_data(lock_address,
                            composed_offset(from_off, to_off, overflow_checks).value))
    /\ UNCHANGED <<host, got_lock, relativeVars, nestedVars, lockVars, arcVars, listVars,
                   csVars, devVars>>

\* from a reference to the field To of the host (the link), the field From (the
\* lock) is located with the offset Relative::offset() returned: the address
\* of To plus the offset, in wrapping arithmetic
RelativeLocate ==
    /\ IsSome(rel)
    /\ got_lock = None
    /\ got_lock' = Some(IRwLock_of(link_address, Unwrap(rel)))
    /\ UNCHANGED <<host, got_link, relativeVars, nestedVars, lockVars, arcVars, listVars,
                   csVars, devVars>>

----------------------------------------------------------------------------
(* kernel/src/devices/i2c_core/block_i2c.rs *)

MaxLen == 2         \* longest buffer passed to write_bytes / read_bytes
MaxOps == 2         \* operations of one transaction

\* blueos_hal::err::HalError (some of its variants) and Ok(..)
HalOk == "Ok"
HalErrors == {"Fail", "Busy", "InvalidParam", "NoAck"}
HalResults == {HalOk} \cup HalErrors

\* what the peripheral `inner` does during one call: release is the result of
\* release_bus(); abort_at is the byte before which the transmit FIFO is full
\* with an error status pending (0: never); fault_at is the byte whose
\* read_data8 / read_byte_with_stop / send_byte_with_stop returns Err(fault)
\* (0: none)
Peripheral == [release : HalResults, abort_at : 0 .. MaxLen, fault_at : 0 .. MaxLen,
               fault : {"Busy", "NoAck"}]

\* the outcome of write_bytes / read_bytes: the result, the bytes transferred
\* and whether release_bus was called
Outcome(result, sent, called) == [res |-> result, sent |-> sent, released |-> called]

\* BlockI2c::write_bytes(address, bytes, first_transaction, last_transaction)
\* for bytes.len() = n
BlockI2c_write_bytes_mutant(n, first, last, hw) ==
    IF n = 0
    THEN Outcome("InvalidParam", 0, ~first)
    ELSE Outcome(HalOk, n, FALSE)
BlockI2c_write_bytes(n, first, last, hw) ==
    IF n = 0
    THEN IF ~first /\ hw.release # HalOk
         THEN Outcome(hw.release, 0, TRUE)
         ELSE Outcome("InvalidParam", 0, ~first)
    ELSE IF hw.abort_at \in 1 .. n
         THEN Outcome("Fail", hw.abort_at - 1, FALSE)
         ELSE IF last /\ hw.fault_at = n
              THEN Outcome(hw.fault, n - 1, FALSE)
              ELSE Outcome(HalOk, n, FALSE)

\* BlockI2c::read_bytes(address, buffer, first_transaction, last_transaction)
\* for buffer.len() = n
BlockI2c_read_bytes(n, first, last, hw) ==
    IF n = 0
    THEN IF ~first /\ hw.release # HalOk
         THEN Outcome(hw.release, 0, TRUE)
         ELSE Outcome("InvalidParam", 0, ~first)
    ELSE IF hw.fault_at \in 1 .. n
         THEN Outcome(hw.fault, hw.fault_at - 1, FALSE)
         ELSE Outcome(HalOk, n, FALSE)

\* the call drawn returns
EvalBytes ==
    /\ out = None
    /\ out' = Some(IF io.kind = "Write"
                   THEN BlockI2c_write_bytes(io.len, io.first, io.last, io.hw)
                   ELSE BlockI2c_read_bytes(io.len, io.first, io.last, io.hw))
    /\ UNCHANGED <<io, i2cVars, delayVars, busVars, lockVars, arcVars, listVars, adapterVars,
                   csVars>>

\* BusInterface::read_region / write_region of BlockI2c:
\* self.read_bytes(..).map_err(|_| EIO)?; Ok(())
BlockI2c_region(kind, n, first, last, hw) ==
    LET o == IF kind = "Write" THEN BlockI2c_write_bytes(n, first, last, hw)
             ELSE BlockI2c_read_bytes(n, first, last, hw)
    IN IF o.res = HalOk THEN "Ok" ELSE "EIO"

\* embedded_hal::i2c::Operation::Read(buf) / Write(buf) with a buffer of one
\* byte, and what the peripheral can do during such an operation
Operations == [kind : {"Read", "Write"}, len : {1}]
PeripheralOps == {hw \in Peripheral : hw.release = HalOk /\ hw.fault = "NoAck"
                                      /\ hw.abort_at <= 1 /\ hw.fault_at <= 1}
\* the slices of operations passed to transaction
RECURSIVE OperationSlices(_)
OperationSlices(n) ==
    IF n = 0 THEN {<<>>}
    ELSE OperationSlices(n - 1) \cup
         {<<o>> \o q : o \in Operations, q \in {q2 \in OperationSlices(n - 1) : Len(q2) = n - 1}}

\* the I2C addresses of the devices on the bus
Addresses == {1, 2}
\* the SpinLock<BlockI2c<T>> that the clones of one BusWrapper share
BusLock == 1

NoCall == [ph |-> "idle", addr |-> 0, ops |-> <<>>, first |-> TRUE, set |-> "-",
           res |-> "-", held |-> 0]

\* the statement self.0.lock().inner.set_address(address as u16)
\*     .map_err(|_| EACCES)?;
\* for the result r of set_address: the guard that lock() returned is a
\* temporary of the statement and is dropped at its end, also when `?` returns
set_address_statement_mutant(r) ==
    [res |-> IF r = HalOk THEN "-" ELSE "EACCES", drops |-> r = HalOk]
set_address_statement(r) ==
    [res |-> IF r = HalOk THEN "-" ELSE "EACCES", drops |-> TRUE]

\* thread t calls transaction(address, operations) on its clone of the wrapper
I2cCall(t, a, ops) ==
    /\ i2c[t] = NoCall
    /\ i2c' = [i2c EXCEPT ![t] = [NoCall EXCEPT !.ph = "lock1", !.addr = a, !.ops = ops]]
    /\ UNCHANGED <<tar, bytesVars, delayVars, busVars, lockVars, arcVars, listVars, adapterVars,
                   csVars>>

\* self.0.lock() of the first statement and `let inner = self.0.lock()`: the
\* iteration of the loop of SpinLock::lock whose try_lock succeeds
I2cLock(t) ==
    /\ i2c[t].ph \in {"lock1", "lock2"}
    /\ try_lock(BusLock).ok
    /\ RwLock_acquired(BusLock, try_lock(BusLock).mode)
    /\ i2c' = [i2c EXCEPT ![t].ph = IF @ = "lock1" THEN "set" ELSE "data",
                          ![t].held = @ + 1]
    /\ UNCHANGED <<tar, irq, guard, pc, hist, bytesVars, delayVars, busVars, arcVars,
                   listVars, adapterVars, csVars>>

\* inner.set_address(address as u16): the peripheral takes the address, or
\* refuses it and keeps the one it has
I2cSetAddress(t) ==
    /\ i2c[t].ph = "set"
    /\ \E r \in {HalOk, "Busy"} :
          /\ tar' = IF r = HalOk THEN i2c[t].addr ELSE tar
          /\ i2c' = [i2c EXCEPT ![t].ph = "end1", ![t].set = r,
                                ![t].res = set_address_statement(r).res]
    /\ UNCHANGED <<bytesVars, delayVars, busVars, lockVars, arcVars, listVars, adapterVars,
                   csVars>>

\* the end of the first statement: its temporaries are dropped, and `?`
\* returns if set_address failed
I2cEndStatement(t) ==
    /\ i2c[t].ph = "end1"
    /\ IF set_address_statement(i2c[t].set).drops
       THEN /\ RwLock_released(BusLock, "w")
            /\ i2c' = [i2c EXCEPT ![t].held = @ - 1,
                                  ![t].ph = IF i2c[t].set = HalOk THEN "lock2" ELSE "ret"]
       ELSE /\ i2c' = [i2c EXCEPT ![t].ph = IF i2c[t].set = HalOk THEN "lock2" ELSE "ret"]
            /\ UNCHANGED <<writers, readers>>
    /\ UNCHANGED <<tar, irq, guard, pc, hist, bytesVars, delayVars, busVars, arcVars,
                   listVars, adapterVars, csVars>>

\* one iteration of `while let Some(operation) = operations.next()`, or the
\* end of the loop
I2cOperation(t) ==
    /\ i2c[t].ph = "data"
    /\ IF i2c[t].ops = <<>>
       THEN i2c' = [i2c EXCEPT ![t].ph = "drop", ![t].res = "Ok"]
       ELSE \E hw \in PeripheralOps :
              LET operation == Head(i2c[t].ops)
                  last == Tail(i2c[t].ops) = <<>>
                  r == BlockI2c_region(operation.kind, operation.len, i2c[t].first, last, hw)
              IN i2c' = [i2c EXCEPT ![t] =
                           IF r = "Ok"
                           THEN [@ EXCEPT !.ops = Tail(@), !.first = FALSE]
                           ELSE [@ EXCEPT !.ph = "drop", !.res = r]]
    /\ UNCHANGED <<tar, bytesVars, delayVars, busVars, lockVars, arcVars, listVars, adapterVars,
                   csVars>>

\* transaction returns: `inner` goes out of scope and releases the lock
I2cDrop(t) ==
    /\ i2c[t].ph = "drop"
    /\ RwLock_released(BusLock, "w")
    /\ i2c' = [i2c EXCEPT ![t].ph = "ret", ![t].held = @ - 1]
    /\ UNCHANGED <<tar, irq, guard, pc, hist, bytesVars, delayVars, busVars, arcVars,
                   listVars, adapterVars, csVars>>

\* the caller has the result
I2cReturn(t) ==
    /\ i2c[t].ph = "ret"
    /\ i2c' = [i2c EXCEPT ![t] = [NoCall EXCEPT !.held = i2c[t].held]]
    /\ UNCHANGED <<tar, bytesVars, delayVars, busVars, lockVars, arcVars, listVars, adapterVars,
                   csVars>>

----------------------------------------------------------------------------
(* kernel/src/drivers/sensor/bme280.rs: KernelDelay.  A u32 is held as two   *)
(* 16-bit halves <<high, low>>, so that every u32 and the overflow of a      *)
(* 32-bit product can be computed.                                           *)

Half == 65536
u32(n_high, n_low) == <<n_high, n_low>>

\* 1_000_000_000 as a u32
NANOS == u32(15258, 51712)

\* k * x for a small k and a u32 x: the product with a high half that is not
\* reduced (the product over the integers), the product modulo 2^32, and
\* whether the two differ
u32_mul(k, x) ==
    LET low == k * x[2]
        high == k * x[1] + low \div Half
    IN [wide |-> <<high, low % Half>>,
        value |-> <<high % Half, low % Half>>,
        overflow |-> high >= Half]

\* x <= y for two numbers in halves
Le(x, y) == x[1] < y[1] \/ (x[1] = y[1] /\ x[2] <= y[2])

\* x / 1_000_000_000 for a u32 x (at most 4)
u32_div_nanos(x) == Cardinality({k \in 1 .. 4 : Le(u32_mul(k, NANOS).wide, x)})

\* KernelDelay::delay_ns(ns) in a build with the given TICKS_PER_SECOND, with or
\* without overflow checks
KernelDelay_delay_ns(ticks_per_second, n, checked) ==
    LET product == u32_mul(ticks_per_second, n)
        ticks == u32_div_nanos(product.value)
    IN IF product.overflow /\ checked
       THEN [panic |-> TRUE, call |-> "-", ticks |-> 0]
       ELSE IF ticks = 0
            THEN [panic |-> FALSE, call |-> "yield_me", ticks |-> 0]
            ELSE [panic |-> FALSE, call |-> "suspend_me_for", ticks |-> ticks]

\* delay_ns is called with the argument drawn
CallDelay ==
    /\ slept = None
    /\ slept' = Some(KernelDelay_delay_ns(rate, ns, overflow_checks))
    /\ UNCHANGED <<ns, rate, bytesVars, i2cVars, busVars, lockVars, arcVars, listVars,
                   adapterVars, csVars>>

----------------------------------------------------------------------------
(* kernel/src/devices/bus/mod.rs: Bus::register_device and Bus::probe_driver *)

NDevs == 2          \* DeviceData items that can be registered
MaxRegistered == 2  \* registrations on one bus

Devices == 1 .. NDevs
\* a DriverModule M, by the devices for which M::probe returns Ok
Modules == SUBSET Devices
\* M::probe(data of device d)
M_probe(m, d) == d \in m

\* the SpinRwLock of Bus::devices
DevicesLock == 1

\* DeviceList::insert_after(&mut devices, &mut device_node.node): the node is
\* linked right after the head, so it is the first that an iteration visits
DeviceList_insert_after(list, d) == <<d>> \o list

ENODEV == [err |-> "ENODEV", driver |-> 0]
Driver(d) == [err |-> "-", driver |-> d]
NoDriver == [matched |-> FALSE, driver |-> 0, stop |-> FALSE]
IdleBus == [ph |-> "idle", d |-> 0, m |-> {}, at |-> 0, acc |-> NoDriver, res |-> Driver(0)]

\* the body of `for node in it` in probe_driver, for the device d of the node:
\* driver and matched after it, and whether it breaks
probe_visit_mutant(m, d, acc) ==
    IF M_probe(m, d) THEN [matched |-> TRUE, driver |-> d, stop |-> FALSE]
    ELSE [acc EXCEPT !.stop = FALSE]
probe_visit(m, d, acc) ==
    IF M_probe(m, d) THEN [matched |-> TRUE, driver |-> d, stop |-> TRUE]
    ELSE [acc EXCEPT !.stop = FALSE]

\* the end of probe_driver
probe_result(acc) == IF ~acc.matched THEN ENODEV ELSE Driver(acc.driver)

\* thread t calls register_device(dev)
RegisterCall(t, d) ==
    /\ bus[t] = IdleBus
    /\ Len(devs) < MaxRegistered
    /\ bus' = [bus EXCEPT ![t] = [IdleBus EXCEPT !.ph = "write", !.d = d]]
    /\ UNCHANGED <<devs, bytesVars, i2cVars, delayVars, lockVars, arcVars, listVars,
                   adapterVars, csVars>>

\* let mut devices = self.devices.write(): the attempt that succeeds
RegisterLock(t) ==
    /\ bus[t].ph = "write"
    /\ RwLock_try_write(DevicesLock)
    /\ RwLock_acquired(DevicesLock, "w")
    /\ bus' = [bus EXCEPT ![t].ph = "insert"]
    /\ UNCHANGED <<devs, irq, guard, pc, hist, bytesVars, i2cVars, delayVars, arcVars,
                   listVars, adapterVars, csVars>>

\* Box::leak(Box::new(DeviceDataNode::new(dev))) and DeviceList::insert_after
RegisterInsert(t) ==
    /\ bus[t].ph = "insert"
    /\ devs' = DeviceList_insert_after(devs, bus[t].d)
    /\ bus' = [bus EXCEPT ![t].ph = "inserted"]
    /\ UNCHANGED <<bytesVars, i2cVars, delayVars, lockVars, arcVars, listVars,
                   adapterVars, csVars>>

\* Ok(()): the write guard is dropped
RegisterReturn(t) ==
    /\ bus[t].ph = "inserted"
    /\ RwLock_released(DevicesLock, "w")
    /\ bus' = [bus EXCEPT ![t] = IdleBus]
    /\ UNCHANGED <<devs, irq, guard, pc, hist, bytesVars, i2cVars, delayVars, arcVars,
                   listVars, adapterVars, csVars>>

\* thread t calls probe_driver::<T, M>
ProbeCall(t, m) ==
    /\ bus[t] = IdleBus
    /\ bus' = [bus EXCEPT ![t] = [IdleBus EXCEPT !.ph = "read", !.m = m]]
    /\ UNCHANGED <<devs, bytesVars, i2cVars, delayVars, lockVars, arcVars, listVars,
                   adapterVars, csVars>>

\* let devices = self.devices.read(): the attempt that succeeds; the
\* iterator starts at the first node
ProbeLock(t) ==
    /\ bus[t].ph = "read"
    /\ RwLock_try_read(DevicesLock)
    /\ RwLock_acquired(DevicesLock, "r")
    /\ bus' = [bus EXCEPT ![t].ph = "for", ![t].at = 1]
    /\ UNCHANGED <<devs, irq, guard, pc, hist, bytesVars, i2cVars, delayVars, arcVars,
                   listVars, adapterVars, csVars>>

\* one step of `for node in it`: the next node is visited, or there is none
ProbeStep(t) ==
    /\ bus[t].ph = "for"
    /\ bus' = [bus EXCEPT ![t] =
          IF @.at > Len(devs)
          THEN [@ EXCEPT !.ph = "after"]
          ELSE LET v == probe_visit(@.m, devs[@.at], @.acc)
               IN IF v.stop THEN [@ EXCEPT !.ph = "after", !.acc = v]
                  ELSE [@ EXCEPT !.at = @ + 1, !.acc = v]]
    /\ UNCHANGED <<devs, bytesVars, i2cVars, delayVars, lockVars, arcVars, listVars,
                   adapterVars, csVars>>

\* probe_driver returns: the read guard is dropped
ProbeReturn(t) ==
    /\ bus[t].ph = "after"
    /\ RwLock_released(DevicesLock, "r")
    /\ bus' = [bus EXCEPT ![t].ph = "ret", ![t].res = probe_result(bus[t].acc)]
    /\ UNCHANGED <<devs, irq, guard, pc, hist, bytesVars, i2cVars, delayVars, arcVars,
                   listVars, adapterVars, csVars>>

\* the caller has the result
ProbeDone(t) ==
    /\ bus[t].ph = "ret"
    /\ bus' = [bus EXCEPT ![t] = IdleBus]
    /\ UNCHANGED <<devs, bytesVars, i2cVars, delayVars, lockVars, arcVars, listVars,
                   adapterVars, csVars>>

----------------------------------------------------------------------------
(* Specifications *)

LockInit ==
    /\ writers = [l \in AllLocks |-> 0]
    /\ readers = [l \in AllLocks |-> 0]
    /\ irq \in [AllThreads -> BOOLEAN]
    /\ \A t \in Threads : ~Traced(t) => irq[t]
    /\ \A t \in Threads : irq[Twin(t)] = irq[t]
    /\ guard = [t \in AllThreads |-> [g \in Slots |-> NoGuard]]
    /\ pc = [t \in AllThreads |-> Idle]
    /\ hist = [NoHist EXCEPT !.base = irq[1]]

ArcInit ==
    /\ strong = [a \in AllArcs |-> IF a = CTRL_BLOCK THEN static_arc ELSE Bus_new]
    /\ handles = [t \in Threads |->
                    [a \in AllArcs |-> IF t = 1 /\ a \in Arcs THEN 1 ELSE 0]]
    /\ apc = [t \in Threads |-> 0]
    /\ released = [a \in AllArcs |-> 0]
    /\ drops = 0

\* nothing is linked, and each node has the one handle that Arc::new returned
ListInit ==
    /\ next = NoLinks.next
    /\ prev = NoLinks.prev
    /\ cnt = [n \in Nodes |-> TinyArc_new]
    /\ own = [n \in Nodes |-> 1]

\* no pair is under composition by Nested
NestedIdle ==
    /\ s_off = Foo_A_offset
    /\ t_off = Foo_A_offset
    /\ overflow_checks = TRUE
    /\ nest = None

\* no host object is under address arithmetic
LayoutIdle ==
    /\ host = Foo_A_offset
    /\ got_lock = None
    /\ got_link = None

AdapterIdle ==
    /\ from_off = Foo_B_offset
    /\ to_off = Foo_A_offset
    /\ rel = None
    /\ NestedIdle
    /\ LayoutIdle

\* the adapter pair is any pair of fields of one host
AdapterInit ==
    /\ from_off \in Usize
    /\ to_off \in Usize
    /\ rel = None
    /\ NestedIdle
    /\ LayoutIdle

\* S and T yield any offsets, in a build of either kind
NestedInit ==
    /\ from_off = Foo_B_offset
    /\ to_off = Foo_A_offset
    /\ rel = None
    /\ s_off \in Usize
    /\ t_off \in Usize
    /\ overflow_checks \in BOOLEAN
    /\ nest = None
    /\ LayoutIdle

\* a host object at any address with its link and its lock at any two
\* different offsets, in either order, inside the address space
LayoutInit ==
    /\ host \in Usize
    /\ from_off \in Usize
    /\ to_off \in Usize
    /\ from_off # to_off
    /\ host + from_off < UsizeRange
    /\ host + to_off < UsizeRange
    /\ rel = None
    /\ s_off = Foo_A_offset
    /\ t_off = Foo_A_offset
    /\ overflow_checks \in BOOLEAN
    /\ nest = None
    /\ got_lock = None
    /\ got_link = None

\* the protected value starts at 0 and no critical section has run
CsInit ==
    /\ data = 0
    /\ local = [t \in Threads |-> None]
    /\ done = [t \in Threads |-> 0]

\* no call of write_bytes / read_bytes is under evaluation
BytesIdle ==
    /\ io = [kind |-> "Write", len |-> 0, first |-> TRUE, last |-> TRUE,
             hw |-> [release |-> HalOk, abort_at |-> 0, fault_at |-> 0, fault |-> "Busy"]]
    /\ out = None

\* any call of write_bytes / read_bytes, on a peripheral that behaves in any way
BytesInit ==
    /\ io \in [kind : {"Read", "Write"}, len : 0 .. MaxLen, first : BOOLEAN,
                last : BOOLEAN, hw : Peripheral]
    /\ out = None

\* no transaction is in progress and no address has been set
I2cInit ==
    /\ tar = 0
    /\ i2c = [t \in Threads |-> NoCall]

\* delay_ns has not been called
DelayIdle ==
    /\ ns = u32(0, 0)
    /\ rate = 1000
    /\ slept = None

\* tick rates of a build, and arguments of delay_ns from 0 to u32::MAX: among
\* them 1_000_000 = u32(15, 16960) and 10_000_000 = u32(152, 38528)
TickRates == {100, 1000}
Delays == {u32(n_high, n_low) : n_high \in {0, 15, 65, 152, 1525, 15258, 65535},
                               n_low \in {0, 16960, 38528, 65535}}
DelayInit ==
    /\ ns \in Delays
    /\ rate \in TickRates
    /\ slept = None

\* no device is registered and no call on the bus is in progress
BusInit ==
    /\ devs = <<>>
    /\ bus = [t \in Threads |-> IdleBus]

DevIdle == BytesIdle /\ I2cInit /\ DelayIdle /\ BusInit

Init == LockInit /\ ArcInit /\ ListInit /\ AdapterIdle /\ CsInit /\ DevIdle

\* NThreads threads contend for SpinLock 1; each holds its guard in its first
\* guard variable (nested guards are the matter of SpecIrq)
RWSlots == {1}
NextRW ==
    \E t \in Threads :
        \/ \E op \in SpinOps, g \in RWSlots : FreeSlot(t, RWSlots, g) /\ Call(t, op, 1, g)
        \/ Disable(t)
        \/ Try(t)
        \/ Return(t)
        \/ \E g \in RWSlots : DropCall(t, g)
        \/ DropField(t)

SpecRW == Init /\ [][NextRW]_vars

\* every thread runs on a CPU of its own, so a step of a call or of a drop
\* that stays possible is taken; and no guard is held for ever
RWFairness ==
    \A t \in Threads :
        /\ WF_vars(Disable(t))
        /\ WF_vars(Try(t))
        /\ WF_vars(Return(t))
        /\ WF_vars(DropField(t))
        /\ WF_vars(\E g \in RWSlots : DropCall(t, g))

FairRW == SpecRW /\ RWFairness

\* a stream of readers and a writer on SpinLock 1: two threads keep taking
\* read guards that overlap (a reader drops its guard only while the other
\* reader holds one and is not dropping it), a third thread calls lock()
StreamReaders == {1, 2}
StreamWriter == Twin(1)
StreamThreads == StreamReaders \cup {StreamWriter}
StreamSlots == {1}
Overlapping(t) ==
    /\ reader_count(1) >= Cardinality(StreamReaders)
    /\ \A u \in StreamReaders \ {t} : pc[u].op # "drop"
ReaderCall(t) ==
    \E op \in {"read", "irqsave_read"}, g \in StreamSlots :
        FreeSlot(t, StreamSlots, g) /\ Call(t, op, 1, g)
ReaderDrop(t) == \E g \in StreamSlots : Overlapping(t) /\ DropCall(t, g)
WriterCall(t) == \E g \in StreamSlots : FreeSlot(t, StreamSlots, g) /\ Call(t, "lock", 1, g)
WriterDrop(t) == \E g \in StreamSlots : DropCall(t, g)
NextStream ==
    \/ \E t \in StreamReaders : ReaderCall(t)
    \/ \E t \in StreamReaders : ReaderDrop(t)
    \/ WriterCall(StreamWriter)
    \/ WriterDrop(StreamWriter)
    \/ \E t \in StreamThreads : Disable(t)
    \/ \E t \in StreamThreads : Try(t)
    \/ \E t \in StreamThreads : Return(t)
    \/ \E t \in StreamThreads : DropField(t)

SpecStream == Init /\ [][NextStream]_vars

\* every thread runs on a CPU of its own and is scheduled again and again; the
\* readers keep coming, the writer calls lock(), and every read guard that can
\* be dropped again and again is dropped
StreamFairness ==
    /\ \A t \in StreamThreads :
          /\ WF_vars(Disable(t))
          /\ WF_vars(Try(t))
          /\ WF_vars(Return(t))
          /\ WF_vars(DropField(t))
    /\ \A t \in StreamReaders : WF_vars(ReaderCall(t)) /\ SF_vars(ReaderDrop(t))
    /\ WF_vars(WriterCall(StreamWriter))
    /\ WF_vars(WriterDrop(StreamWriter))

FairStream == SpecStream /\ StreamFairness

\* SpinLock 1 and ISpinLock 2 side by side: thread t uses SpinLock 1, its twin
\* is given the same calls and guard drops on ISpinLock 2, one step behind
PairThreads == Threads
PairSlots == {1}
PairOps == {"lock", "irqsave_lock", "read", "irqsave_read"}
\* the method of ISpinLock with the name of a method of SpinLock
ISpinLock_op(op) ==
    CASE op = "lock" -> "ilock"
      [] op = "irqsave_lock" -> "iirqsave_lock"
      [] op = "read" -> "iread"
      [] op = "irqsave_read" -> "iirqsave_read"
\* how far a thread is in its call or drop: 0 no guard and no call, 1 about to
\* disable interrupts, 2 attempting, 3 returning, 4 holding the guard, 5 and 6
\* dropping the guard (one or two fields left)
Pos(x) ==
    CASE pc[x].ph = "enter" -> 1
      [] pc[x].ph = "try" -> 2
      [] pc[x].ph = "ret" -> 3
      [] pc[x].op = "drop" -> 4 + Len(pc[x].todo)
      [] OTHER -> IF guard[x][1] = NoGuard THEN 0 ELSE 4
\* the twin has caught up with t; a SpinLock caller between two attempts of
\* irqsave_lock / irqsave_read corresponds to an ISpinLock caller in its wait
Synced(t) ==
    \/ Pos(Twin(t)) = Pos(t)
    \/ Pos(t) = 1 /\ Pos(Twin(t)) = 2
AllSynced == \A t \in PairThreads : Synced(t)
PairStep(t) ==
    /\ AllSynced
    /\ \/ \E op \in PairOps, g \in PairSlots : FreeSlot(t, PairSlots, g) /\ Call(t, op, 1, g)
       \/ Disable(t)
       \/ Try(t)
       \/ Return(t)
       \/ \E g \in PairSlots : DropCall(t, g)
       \/ DropField(t)
TwinStep(t) ==
    /\ ~Synced(t)
    /\ \/ \E g \in PairSlots :
             /\ pc[t].op \in PairOps
             /\ FreeSlot(Twin(t), PairSlots, g)
             /\ Call(Twin(t), ISpinLock_op(pc[t].op), 2, g)
       \/ Disable(Twin(t))
       \/ Try(Twin(t))
       \/ Return(Twin(t))
       \/ \E g \in PairSlots : pc[t].op = "drop" /\ DropCall(Twin(t), g)
       \/ DropField(Twin(t))
NextPair ==
    \/ \E t \in PairThreads : PairStep(t)
    \/ \E t \in PairThreads : TwinStep(t)

SpecPair == Init /\ [][NextPair]_vars

\* thread 1 nests guards of NLocks locks in MaxGuards guard variables
IrqSlots == 1 .. MaxGuards
NextIrq ==
    \/ \E l \in Locks, op \in SpinOps \cup ISpinOps, g \in IrqSlots :
           FreeSlot(1, IrqSlots, g) /\ Call(1, op, l, g)
    \/ Disable(1)
    \/ Try(1)
    \/ Return(1)
    \/ \E g \in IrqSlots : DropCall(1, g)
    \/ DropField(1)
    \/ \E a \in IrqSlots, b \in IrqSlots : TakeCall(1, a, b)
    \/ TakeExec(1)
    \/ \E g \in IrqSlots : ForgetCall(1, g)
    \/ ForgetExec(1)

SpecIrq == Init /\ [][NextIrq]_vars

\* the threads clone, move and drop the handles of one BusWrapper
NextArc ==
    \E t \in Threads :
        \/ \E a \in Arcs : ArcClone(t, a)
        \/ \E u \in Threads, a \in Arcs : ArcSend(t, u, a)
        \/ \E a \in Arcs : ArcDrop(t, a)
        \/ ArcRelease(t)

SpecArc == Init /\ [][NextArc]_vars

\* the threads clone, move and drop handles cloned from the PTR of static_arc!,
\* next to the handles of bus 1
StaticScene == {a \in AllArcs : a = CTRL_BLOCK \/ a = 1}
NextStatic ==
    \E t \in Threads :
        \/ \E a \in StaticScene : ArcClone(t, a)
        \/ \E u \in Threads, a \in StaticScene : ArcSend(t, u, a)
        \/ \E a \in StaticScene : ArcDrop(t, a)
        \/ ArcRelease(t)

SpecStatic == Init /\ [][NextStatic]_vars

\* the threads insert and detach nodes of the list of one owner, with
\* UniqueListHead::insert / detach or through the access guard of
\* UniqueListHead::lock(); each thread keeps its guard in its first guard
\* variable
ListSlots == {1}
ListThreads == {1, 2}
NextList ==
    \E t \in ListThreads :
        \/ \E n \in Nodes : NodeClone(t, n)
        \/ \E n \in Nodes : NodeDrop(t, n)
        \/ \E op \in OneShots, g \in ListSlots :
               FreeSlot(t, ListSlots, g) /\ ListCall(t, op, g)
        \/ \E g \in ListSlots :
               FreeSlot(t, ListSlots, g) /\ Call(t, UniqueListHead_lock, OwnerLock, g)
        \/ Disable(t)
        \/ Try(t)
        \/ Return(t)
        \/ \E op \in GuardOps, g \in ListSlots : GuardCall(t, op, g)
        \/ \E n \in Nodes : ListStep(t, n)
        \/ ListFinish(t)
        \/ \E g \in ListSlots : DropCall(t, g)
        \/ DropField(t)

SpecList == Init /\ [][NextList]_vars

\* as NextList, but the threads hold no other handles than the first ones,
\* and thread 1 has MaxGuards guard variables and also takes the guard of the
\* ISpinLock 2
NestSlots(t) == IF Traced(t) THEN Slots ELSE {1}
NextNest ==
    \E t \in ListThreads :
        \/ \E op \in OneShots, g \in NestSlots(t) :
               FreeSlot(t, NestSlots(t), g) /\ ListCall(t, op, g)
        \/ \E g \in NestSlots(t) :
               FreeSlot(t, NestSlots(t), g) /\ Call(t, UniqueListHead_lock, OwnerLock, g)
        \/ \E g \in NestSlots(t) :
               /\ Traced(t)
               /\ FreeSlot(t, NestSlots(t), g)
               /\ Call(t, "iirqsave_lock", 2, g)
        \/ Disable(t)
        \/ Try(t)
        \/ Return(t)
        \/ \E op \in GuardOps, g \in NestSlots(t) : GuardCall(t, op, g)
        \/ \E n \in Nodes : ListStep(t, n)
        \/ ListFinish(t)
        \/ \E g \in NestSlots(t) : DropCall(t, g)
        \/ DropField(t)

SpecNest == Init /\ [][NextNest]_vars

\* thread 1 alone uses the lock of the owner (SpinLock 1): it takes guards
\* with read, lock, irqsave_lock (which is UniqueListHead::lock) and calls
\* UniqueListHead::insert / detach, also while it holds a guard
NextSelf ==
    \/ \E op \in {"read", "lock", "irqsave_lock"}, g \in Slots :
           FreeSlot(1, Slots, g) /\ Call(1, op, OwnerLock, g)
    \/ \E op \in OneShots, g \in Slots : FreeSlot(1, Slots, g) /\ ListCall(1, op, g)
    \/ Disable(1)
    \/ Try(1)
    \/ Return(1)
    \/ \E n \in Nodes : ListStep(1, n)
    \/ ListFinish(1)
    \/ \E g \in Slots : DropCall(1, g)
    \/ DropField(1)

SpecSelf == Init /\ [][NextSelf]_vars

\* the CPU of thread 1 keeps running: a step of a call or of a drop that
\* stays possible is taken
SelfFairness ==
    /\ WF_vars(Disable(1))
    /\ WF_vars(Try(1))
    /\ WF_vars(Return(1))
    /\ WF_vars(\E n \in Nodes : ListStep(1, n))
    /\ WF_vars(ListFinish(1))
    /\ WF_vars(DropField(1))

FairSelf == SpecSelf /\ SelfFairness

\* test_intrusive_mutex_list_head: thread 1 takes the guards of the embedded
\* locks of the head and of a node and links the node with the raw
\* insert_after
NextRaw ==
    \/ \E c \in Cells, g \in Slots :
           FreeSlot(1, Slots, g) /\ Call(1, "iirqsave_lock", node_lock(c), g)
    \/ Disable(1)
    \/ Try(1)
    \/ Return(1)
    \/ \E n \in Nodes : RawInsert(1, n)
    \/ \E n \in Nodes : NodeClone(1, n)
    \/ \E g \in Slots : DropCall(1, g)
    \/ DropField(1)

SpecRaw == Init /\ [][NextRaw]_vars

\* two threads each run critical sections on SpinLock 1 under lock() or
\* irqsave_lock(); a guard is dropped between critical sections, not inside one
CsThreads == {1, 2}
CsSlots == {1}
NextCs ==
    \E t \in CsThreads :
        \/ \E op \in {"lock", "irqsave_lock"}, g \in CsSlots :
               FreeSlot(t, CsSlots, g) /\ Call(t, op, 1, g)
        \/ Disable(t)
        \/ Try(t)
        \/ Return(t)
        \/ CsRead(t)
        \/ CsWrite(t)
        \/ \E g \in CsSlots : local[t] = None /\ DropCall(t, g)
        \/ DropField(t)

SpecCs == Init /\ [][NextCs]_vars

\* Relative::offset() of any adapter pair
NextAdapter == EvalRelative

AdapterStart == LockInit /\ ArcInit /\ ListInit /\ AdapterInit /\ CsInit /\ DevIdle

SpecAdapter == AdapterStart /\ [][NextAdapter]_vars

\* Nested::offset() of any adapter pair
NextNested == EvalNested

NestedStart == LockInit /\ ArcInit /\ ListInit /\ NestedInit /\ CsInit /\ DevIdle

SpecNested == NestedStart /\ [][NextNested]_vars

\* the link and the lock of one host object are located from each other
NextLayout ==
    \/ LocateLock
    \/ LocateLink

LayoutStart == LockInit /\ ArcInit /\ ListInit /\ LayoutInit /\ CsInit /\ DevIdle

SpecLayout == LayoutStart /\ [][NextLayout]_vars

\* Relative::offset() of the two fields of a host object, and the field From
\* located from the field To with it
NextReach ==
    \/ EvalRelative
    \/ RelativeLocate

SpecReach == LayoutStart /\ [][NextReach]_vars

\* write_bytes and read_bytes of BlockI2c, called with any arguments
NextBytes == EvalBytes

BytesStart ==
    /\ LockInit /\ ArcInit /\ ListInit /\ AdapterIdle /\ CsInit
    /\ BytesInit /\ I2cInit /\ DelayIdle /\ BusInit

SpecBytes == BytesStart /\ [][NextBytes]_vars

\* the threads run transactions on clones of one BusWrapper
I2cThreads == {1, 2}
NextI2c ==
    \E t \in I2cThreads :
        \/ \E a \in Addresses, ops \in OperationSlices(MaxOps) : I2cCall(t, a, ops)
        \/ I2cLock(t)
        \/ I2cSetAddress(t)
        \/ I2cEndStatement(t)
        \/ I2cOperation(t)
        \/ I2cDrop(t)
        \/ I2cReturn(t)

SpecI2c == Init /\ [][NextI2c]_vars

\* delay_ns called with any argument, in a build of either kind
NextDelay == CallDelay

DelayStart ==
    /\ LockInit /\ ArcInit /\ ListInit /\ CsInit
    /\ from_off = Foo_B_offset /\ to_off = Foo_A_offset /\ rel = None
    /\ s_off = Foo_A_offset /\ t_off = Foo_A_offset /\ nest = None
    /\ overflow_checks \in BOOLEAN
    /\ LayoutIdle
    /\ BytesIdle /\ I2cInit /\ DelayInit /\ BusInit

SpecDelay == DelayStart /\ [][NextDelay]_vars

\* two threads register devices on one bus and probe drivers
BusThreads == {1, 2}
NextBus ==
    \E t \in BusThreads :
        \/ \E d \in Devices : RegisterCall(t, d)
        \/ RegisterLock(t)
        \/ RegisterInsert(t)
        \/ RegisterReturn(t)
        \/ \E m \in Modules : ProbeCall(t, m)
        \/ ProbeLock(t)
        \/ ProbeStep(t)
        \/ ProbeReturn(t)
        \/ ProbeDone(t)

SpecBus == Init /\ [][NextBus]_vars

----------------------------------------------------------------------------
(* Properties *)

\* the live guards of lock l in the given mode, as (thread, guard variable) pairs
Holders(l, mode) ==
    {tg \in Threads \X Slots :
        /\ guard[tg[1]][tg[2]].held
        /\ guard[tg[1]][tg[2]].l = l
        /\ guard[tg[1]][tg[2]].mode = mode}

\* C1: on one SpinLock, in every reachable state at most one write guard is
\* alive and no write guard is alive together with a read guard (read guards
\* may be alive together in any number)
C1_MutualExclusion ==
    \A l \in Locks :
        /\ Cardinality(Holders(l, "w")) <= 1
        /\ Holders(l, "w") # {} => Holders(l, "r") = {}

\* a thread has been refused the lock that another thread holds exclusively
C1_Witness ==
    \E t \in Threads, u \in Threads :
        /\ t # u
        /\ guard[t][1].held /\ guard[t][1].mode = "w" /\ guard[t][1].l = 1
        /\ pc[u].ph = "ret" /\ pc[u].res = "None" /\ pc[u].l = 1

\* the step of thread t in which its call of one of `ops` makes its attempt
\* and returns
Returns(t, ops) ==
    /\ pc[t].op \in ops
    /\ pc[t].ph = "try"
    /\ pc'[t].ph = "ret"

\* C2: try_lock / try_write returns a guard iff the lock is Unlocked at the
\* attempt, and the lock is then ExclusiveLocked; from SharedLocked(n) and
\* ExclusiveLocked it returns None and the lock state is unchanged
C2_TryLock ==
    [][\A t \in Threads :
         Returns(t, {"try_lock", "try_write"}) =>
            LET l == pc[t].l
                g == pc[t].g
            IN IF Unlocked(l)
               THEN /\ pc'[t].res = "Some"
                    /\ guard'[t][g].held /\ guard'[t][g].mode = "w" /\ guard'[t][g].l = l
                    /\ writers'[l] = 1 /\ readers'[l] = 0
               ELSE /\ pc'[t].res = "None"
                    /\ guard'[t][g] = NoGuard
                    /\ writers' = writers /\ readers' = readers]_vars

\* try_write has returned None on a lock that is SharedLocked
C2_Witness ==
    \E t \in Threads :
        /\ pc[t].op = "try_write" /\ pc[t].ph = "ret" /\ pc[t].res = "None"
        /\ SharedLocked(pc[t].l)

\* C3: try_read returns a guard from Unlocked (giving SharedLocked(1)) and from
\* SharedLocked(n) (giving SharedLocked(n+1)); it returns None, leaving the
\* state unchanged, exactly when the lock is ExclusiveLocked
C3_TryRead ==
    [][\A t \in Threads :
         Returns(t, {"try_read"}) =>
            LET l == pc[t].l
                g == pc[t].g
            IN IF ExclusiveLocked(l)
               THEN /\ pc'[t].res = "None"
                    /\ guard'[t][g] = NoGuard
                    /\ writers' = writers /\ readers' = readers
               ELSE /\ Unlocked(l) \/ SharedLocked(l)
                    /\ pc'[t].res = "Some"
                    /\ guard'[t][g].held /\ guard'[t][g].mode = "r" /\ guard'[t][g].l = l
                    /\ writers'[l] = 0 /\ readers'[l] = readers[l] + 1]_vars

\* try_read has returned a guard that took the lock from SharedLocked(1) to
\* SharedLocked(2)
C3_Witness ==
    \E t \in Threads :
        /\ pc[t].op = "try_read" /\ pc[t].ph = "ret" /\ pc[t].res = "Some"
        /\ readers[pc[t].l] = 2

\* the holders recorded in every lock are its live guards
HoldersRecorded ==
    \A l \in Locks :
        /\ writers[l] = Cardinality(Holders(l, "w"))
        /\ readers[l] = Cardinality(Holders(l, "r"))

\* the step in which the drop of a guard releases its lock undoes one
\* acquisition of that lock and touches no other lock
DropUndoesOne ==
    \A t \in Threads :
        (pc[t].op = "drop" /\ guard[t][pc[t].g].held /\ ~guard'[t][pc[t].g].held) =>
            LET l == pc[t].l
            IN /\ IF guard[t][pc[t].g].mode = "w"
                  THEN ExclusiveLocked(l) /\ writers'[l] = 0 /\ readers'[l] = 0
                  ELSE SharedLocked(l) /\ writers'[l] = 0 /\ readers'[l] = readers[l] - 1
               /\ \A k \in Locks \ {l} : writers'[k] = writers[k] /\ readers'[k] = readers[k]

\* C4: dropping a guard undoes exactly one acquisition (write guard:
\* ExclusiveLocked to Unlocked; read guard: SharedLocked(n) to SharedLocked(n-1),
\* to Unlocked for n = 1); the number of live guards always equals the number
\* of holders recorded in the lock, so that the lock is Unlocked once every
\* guard has been dropped
C4_DropReleasesOnce ==
    /\ []HoldersRecorded
    /\ [][DropUndoesOne]_vars
    /\ [](\A l \in Locks :
            (\A t \in Threads, g \in Slots : guard[t][g].l # l) => Unlocked(l))

\* the drop of a read guard has taken the lock from SharedLocked(2) to
\* SharedLocked(1)
C4_Witness ==
    \E t \in Threads :
        /\ pc[t].op = "drop"
        /\ guard[t][pc[t].g].mode = "r"
        /\ ~guard[t][pc[t].g].held
        /\ readers[pc[t].l] = 1

C6_MaskedWhileAlive ==
    \A t \in Threads, g \in Slots :
        (guard[t][g].held /\ guard[t][g].via) => ~irq[t]

\* C7: after a.take_irq_guard(b) on two live guards of which at least one held
\* an interrupt guard, exactly one of a and b holds an interrupt guard
C7_ExactlyOneResponsible ==
    [][\A t \in Threads :
         (/\ pc[t].op = "take_irq_guard" /\ pc[t].ph = "exec" /\ pc'[t].ph = "ret"
          /\ \/ IsSome(guard[t][pc[t].g].irq_guard)
             \/ IsSome(guard[t][pc[t].h].irq_guard)) =>
            IsSome(guard'[t][pc[t].g].irq_guard) # IsSome(guard'[t][pc[t].h].irq_guard)]_vars

\* C8: when two guards were nested, take_irq_guard was called once on them and
\* both have been dropped, the interrupt state is the one before the first
\* acquisition
C8_MovedRoundTrip ==
    (Quiescent(1) /\ hist.ep = "moved") => irq[1] = hist.base

\* C9: when guards were acquired (with or without interrupt masking) and
\* dropped in reverse order of acquisition, to any depth, and all have been
\* dropped, the interrupt state is the one before the first acquisition
C9_IrqRoundTrip ==
    (Quiescent(1) /\ hist.ep = "clean") => irq[1] = hist.base

\* irqsave guards were nested two deep with interrupts enabled at the start,
\* and all have been dropped in reverse order
C9_Witness ==
    /\ Quiescent(1)
    /\ hist.ep = "clean"
    /\ hist.depth >= 2
    /\ hist.base
    /\ irq[1]

\* C10: the value of a TinyArc created by new is released exactly once, and
\* only after its last handle has been dropped: never while a handle is alive,
\* never twice, and always once no handle is left and no drop is in progress
C10_ReleasedOnce ==
    \A a \in Arcs :
        /\ released[a] <= 1
        /\ released[a] = 1 => TotalHandles(a) = 0
        /\ (\E t \in Threads : apc[t] = a) => TotalHandles(a) = 0 /\ released[a] = 0
        /\ (TotalHandles(a) = 0 /\ \A t \in Threads : apc[t] # a) => released[a] = 1

\* bus 1 has been released after its last handle was dropped, while clones of
\* bus 2 are alive in another thread than the one that created it
C10_Witness ==
    /\ released[1] = 1
    /\ handles[2][2] >= 2

\* C11: the strong count of a bus is at least the number of its live handles
\* and never negative; Bus::new gives count 1, every clone adds exactly 1 and
\* every drop subtracts exactly 1
C11_CountTracksHandles ==
    /\ \A a \in Arcs : strong[a] = 1
    /\ [](\A a \in Arcs : strong[a] >= LiveHandles(a) /\ strong[a] >= 0)
    /\ [][\A a \in Arcs :
            /\ TotalHandles(a)' = TotalHandles(a) + 1 => strong'[a] = strong[a] + 1
            /\ TotalHandles(a)' = TotalHandles(a) - 1 => strong'[a] = strong[a] - 1]_vars

\* bus 1 has as many handles as the model allows, some of them in thread 2,
\* and the only handle of bus 2 has been dropped
C11_Witness ==
    /\ strong[1] = MaxHandles
    /\ handles[2][1] >= 1
    /\ strong[2] = 0

\* C12: the control block of static_arc! is never released: whatever handles
\* cloned from PTR are cloned and dropped, its strong count stays at least 1
\* (the count of PTR and of the handles cloned from it) and no drop releases it
C12_StaticNeverReleased ==
    /\ strong[CTRL_BLOCK] >= 1
    /\ strong[CTRL_BLOCK] = LiveHandles(CTRL_BLOCK)
    /\ released[CTRL_BLOCK] = 0
    /\ \A t \in Threads : apc[t] # CTRL_BLOCK

\* handles cloned from PTR have been dropped, to the last one
C12_Witness ==
    /\ drops = 1
    /\ TotalHandles(CTRL_BLOCK) = 0
    /\ strong[CTRL_BLOCK] = 1

Reverse(q) == [i \in 1 .. Len(q) |-> q[Len(q) + 1 - i]]
Remove(q, x) == SelectSeq(q, LAMBDA y : y # x)
\* the nodes reachable from the head
Members(ls) == {Forward(ls)[i] : i \in 2 .. Len(Forward(ls))}
\* no list operation is between its two halves
Quiet == \A t \in Threads : pc[t].ph # "half"
\* every link has its mirror image
WellFormed(ls) ==
    \A c \in Cells, d \in Cells :
        (ls.next[c] = Some(d)) <=> (ls.prev[d] = Some(c))

C14_DetachUnlinked ==
    \A n \in Nodes :
        IsDetached(Links, n) =>
            /\ UniqueListHead_detach(Links, n, cnt[n]) =
                   [ok |-> FALSE, mid |-> Links, ls |-> Links, consumed |-> 0,
                    count |-> cnt[n]]
            /\ UniqueListHeadAccessGuard_detach(Links, n, cnt[n]) =
                   [ok |-> FALSE, mid |-> Links, ls |-> Links, consumed |-> 0,
                    count |-> cnt[n]]

\* a detach through the access guard has returned false for a node that is in
\* no list, while the other node is linked
C14_Witness ==
    \E t \in Threads :
        /\ pc[t].op = "guard_detach"
        /\ pc[t].ph = "ret"
        /\ pc[t].res = "false"
        /\ IsDetached(Links, pc[t].h)
        /\ Members(Links) # {}

\* C15: insert on a node that is already linked reports no effect and leaves
\* the links of every cell as they are, and no node is ever linked at two
\* positions: it is met at most once by iteration and, when no operation is
\* between its two link writes, at most one cell has it as its successor and
\* at most one as its predecessor
C15_InsertLinked ==
    /\ \A n \in Nodes :
         ~IsDetached(Links, n) =>
            LET r == UniqueListHeadAccessGuard_insert(Links, n, cnt[n])
            IN ~r.ok /\ r.mid = Links /\ r.ls = Links
    /\ \A n \in Nodes :
         /\ Cardinality({i \in 1 .. Len(Forward(Links)) : Forward(Links)[i] = n}) <= 1
         /\ Quiet => /\ Cardinality({c \in Cells : next[c] = Some(n)}) <= 1
                     /\ Cardinality({c \in Cells : prev[c] = Some(n)}) <= 1

\* an insert through the access guard has returned false for a node that is
\* linked
C15_Witness ==
    \E t \in Threads :
        /\ pc[t].op = "guard_insert"
        /\ pc[t].ph = "ret"
        /\ pc[t].res = "false"
        /\ pc[t].h \in Members(Links)

\* what inserting node n through the access guard, detaching it and inserting
\* it again does, starting from the current state
RoundTrip(n) ==
    LET s1 == UniqueListHeadAccessGuard_insert(Links, n, cnt[n])
        s2 == UniqueListHeadAccessGuard_detach(s1.ls, n, s1.count)
        s3 == UniqueListHeadAccessGuard_insert(s2.ls, n, s2.count)
    IN [s1 |-> s1, s2 |-> s2, s3 |-> s3]

\* C16 as stated: insert and then detach restore the list and the strong
\* count, and inserting again reproduces the list of the first insertion
C16_RoundTripRestoresCount ==
    \A n \in Nodes :
        (Quiet /\ IsDetached(Links, n) /\ own[n] >= 2) =>
            /\ RoundTrip(n).s1.ok /\ RoundTrip(n).s2.ok /\ RoundTrip(n).s3.ok
            /\ RoundTrip(n).s2.ls = Links
            /\ RoundTrip(n).s2.count = cnt[n]
            /\ RoundTrip(n).s3.ls = RoundTrip(n).s1.ls

\* C16: insert and then detach restore the links of every cell; the handle
\* given to insert is not returned and detach releases the share of the list,
\* so the strong count ends one below its value before the insertion; with
\* another handle the node is inserted again, which reproduces the list of
\* the first insertion
C16_RoundTrip ==
    \A n \in Nodes :
        (Quiet /\ IsDetached(Links, n) /\ own[n] >= 2) =>
            /\ RoundTrip(n).s1.ok /\ RoundTrip(n).s2.ok /\ RoundTrip(n).s3.ok
            /\ RoundTrip(n).s2.ls = Links
            /\ RoundTrip(n).s1.count = cnt[n]
            /\ RoundTrip(n).s2.count = cnt[n] - 1
            /\ RoundTrip(n).s1.consumed + RoundTrip(n).s2.consumed = 1
            /\ RoundTrip(n).s3.ls = RoundTrip(n).s1.ls

\* node 2 is linked, and node 1, of which the callers hold a single handle,
\* has been inserted and detached: it is in no list again
C16_Witness ==
    \E t \in Threads :
        /\ pc[t].op = "guard_detach"
        /\ pc[t].ph = "ret"
        /\ pc[t].res = "true"
        /\ pc[t].h = 1
        /\ Forward(Links) = <<ListHead, 2>>
        /\ cnt[1] = 1
        /\ own[1] = 1

\* C17: a node reachable from the head has a strong count of at least 1 plus
\* the handles the callers hold, so its value is not released; a successful
\* insert consumes one handle and leaves the count alone; a node stops being
\* reachable only by a detach, which takes the share of the list off the
\* count
C17_ListOwnsShare ==
    /\ [](\A n \in Nodes :
            /\ cnt[n] >= own[n]
            /\ n \in Members(Links) => cnt[n] >= 1 + own[n]
            /\ IsDetached(Links, n) =>
                 LET r == UniqueListHead_insert(Links, n, cnt[n])
                 IN r.ok /\ r.consumed = 1 /\ r.count = cnt[n])
    /\ [][\A n \in Nodes :
            (n \in Members(Links) /\ n \notin Members(Links)') =>
                 /\ \E t \in Threads : /\ pc[t].op \in {"detach", "guard_detach"}
                                        /\ pc[t].ph = "body"
                                        /\ pc'[t].ph = "half"
                                        /\ pc'[t].h = n
                 /\ cnt'[n] = cnt[n] - 1
                 /\ own'[n] = own[n]]_vars

\* node 1 is linked while the callers hold a handle of it, and node 2 is
\* linked while the callers hold none
C17_Witness ==
    /\ Quiet
    /\ Members(Links) = {1, 2}
    /\ own[1] = 1 /\ cnt[1] = 2
    /\ own[2] = 0 /\ cnt[2] = 1

\* C18: linking a node with the raw insert_after under the guards of the
\* embedded locks of the head and of the node leaves its strong count as it
\* is, so the count stays the number of handles the callers hold: 1 when
\* there is only one
C18_RawInsertKeepsCount ==
    \A n \in Nodes :
        /\ cnt[n] = own[n]
        /\ test_insert(Links, n, cnt[n]).count = cnt[n]

\* node 1 has been linked and the guard of its lock dropped; the only handle
\* is the one of the caller
C18_Witness ==
    /\ 1 \in Members(Links)
    /\ HeldIn(1, node_lock(ListHead)) # {}
    /\ HeldIn(1, node_lock(1)) = {}
    /\ pc[1] = Idle
    /\ own[1] = 1
    /\ cnt[1] = 1

\* the threads that are inside ArcList::insert_after / ArcList::detach
Mutating == {t \in Threads : pc[t].op \in ListOps /\ pc[t].ph \in {"body", "half"}}

\* a thread inside a list operation holds the write guard of the lock of the
\* owner
HeldDuringMutation ==
    \A t \in Mutating :
        /\ Live(guard[t][pc[t].g])
        /\ guard[t][pc[t].g].l = OwnerLock
        /\ guard[t][pc[t].g].mode = "w"
        /\ ExclusiveLocked(OwnerLock)
\* list operations do not overlap
Serialized == Cardinality(Mutating) <= 1
\* whenever the lock of the owner is free, the list is well formed
WellFormedOutsideLock == Unlocked(OwnerLock) => WellFormed(Links)

\* C19: a thread that mutates the list through UniqueListHead::insert,
\* UniqueListHead::detach or an access guard holds the write guard of the
\* lock of the owner and has its interrupts disabled; list operations do not
\* overlap, and the list is well formed whenever the lock is free
C19_MutationsUnderLock ==
    /\ HeldDuringMutation
    /\ \A t \in Mutating : ~irq[t]
    /\ Serialized
    /\ WellFormedOutsideLock

\* C20 as stated: Relative::offset() is From::offset() - To::offset()
C20_RelativeIsDifference ==
    IsSome(rel) => Unwrap(rel) = from_off - to_off

\* C20: Relative::offset() is From::offset() - To::offset() modulo
\* 2^UsizeBits, which is the difference itself when From is not before To; for
\* Foo { a: u32, b: u32 }, Relative<Foo, B, A, u32>::offset() is
\* size_of::<u32>()
C20_RelativeOffset ==
    IsSome(rel) =>
        /\ Unwrap(rel) \in Usize
        /\ (Unwrap(rel) - (from_off - to_off)) % UsizeRange = 0
        /\ from_off >= to_off => Unwrap(rel) = from_off - to_off
        /\ (from_off = Foo_B_offset /\ to_off = Foo_A_offset) => Unwrap(rel) = size_of_u32

\* Relative<Foo, B, A, u32>::offset() has been evaluated
C20_Witness ==
    /\ from_off = Foo_B_offset
    /\ to_off = Foo_A_offset
    /\ rel = Some(size_of_u32)

\* C21 as stated: Nested::offset() returns S::offset() + T::offset()
C21_NestedIsSum ==
    IsSome(nest) => Unwrap(nest) = Returned(s_off + t_off)

\* C21: Nested::offset() returns S::offset() + T::offset() when the sum does
\* not exceed usize::MAX; when it does, the addition panics in a build that
\* checks overflow and yields the sum modulo 2^UsizeBits in one that does not;
\* another call returns what the call before returned
C21_NestedOffset ==
    IsSome(nest) =>
        /\ s_off + t_off < UsizeRange => Unwrap(nest) = Returned(s_off + t_off)
        /\ (s_off + t_off >= UsizeRange /\ overflow_checks) => Unwrap(nest).panic
        /\ (s_off + t_off >= UsizeRange /\ ~overflow_checks) =>
               Unwrap(nest) = Returned(s_off + t_off - UsizeRange)
        /\ Some(Nested_offset(s_off, t_off, overflow_checks)) = nest

\* Nested::offset() has returned the sum of two offsets that are not zero
C21_Witness ==
    /\ s_off > 0
    /\ t_off > 0
    /\ nest = Some(Returned(s_off + t_off))

\* C22: for a host that embeds a link and an ISpinLock located by
\* Relative<Host, Lock, Node, Link>, whichever of the two fields comes first,
\* the address of the link plus the composed offset is the address of the
\* lock of the same host, and the address of the lock minus that offset is the
\* address of the link of the same host
C22_AddressRoundTrip ==
    /\ IsSome(got_lock) => Unwrap(got_lock) = lock_address
    /\ IsSome(got_link) => Unwrap(got_link) = link_address
    /\ (IsSome(got_lock) /\ IsSome(got_link)) =>
          /\ IRwLock_data(Unwrap(got_lock),
                          composed_offset(from_off, to_off, overflow_checks).value)
                 = link_address
          /\ IRwLock_of(Unwrap(got_link),
                        composed_offset(from_off, to_off, overflow_checks).value)
                 = lock_address

\* the lock lies before the link in a host that is not at address 0, and each
\* has been located from the other
C22_Witness ==
    /\ from_off < to_off
    /\ host > 0
    /\ got_lock = Some(lock_address)
    /\ got_link = Some(link_address)

\* no call or drop on lock l is in progress
Settled(l) == \A t \in Threads : pc[t].l # l

\* C28: when no acquisition or release is in progress, reader_count() is the
\* number of live read guards and writer_count() the number of live write
\* guards; writer_count() is always 0 or 1, and the two are never both
\* non-zero
C28_Counts ==
    \A l \in Locks :
        /\ Settled(l) => /\ reader_count(l) = Cardinality(Holders(l, "r"))
                         /\ writer_count(l) = Cardinality(Holders(l, "w"))
        /\ writer_count(l) \in {0, 1}
        /\ ~(writer_count(l) # 0 /\ reader_count(l) # 0)

\* two threads hold read guards of SpinLock 1 and nothing is in progress
C28_Witness ==
    /\ \A t \in Threads : pc[t] = Idle
    /\ reader_count(1) = 2
    /\ Cardinality(Holders(1, "r")) = 2

\* C29: forget_irq leaves every lock and the interrupt state as they are and
\* only empties the interrupt guard of its guard (nothing changes when there
\* is none); the drop of a guard without interrupt guard still undoes one
\* acquisition of its lock and restores no interrupt state
C29_ForgetIrq ==
    [][\A t \in Threads :
         /\ (pc[t].op = "forget_irq" /\ pc[t].ph = "exec" /\ pc'[t].ph = "ret") =>
               /\ writers' = writers /\ readers' = readers
               /\ irq' = irq
               /\ guard' = [guard EXCEPT ![t][pc[t].g].irq_guard = None]
               /\ guard[t][pc[t].g].irq_guard = None => guard' = guard
         /\ (pc[t].op = "drop" /\ guard[t][pc[t].g].irq_guard = None) =>
               /\ irq' = irq
               /\ DropUndoesOne]_vars

\* forget_irq has returned on a guard obtained by an irqsave operation, taken
\* with interrupts enabled: the lock is still held and interrupts are still
\* disabled
C29_Witness ==
    \E t \in Threads :
        /\ pc[t].op = "forget_irq" /\ pc[t].ph = "ret"
        /\ guard[t][pc[t].g].via
        /\ guard[t][pc[t].g].held
        /\ guard[t][pc[t].g].irq_guard = None
        /\ \A g \in Slots : g # pc[t].g => guard[t][g] = NoGuard
        /\ hist.base
        /\ ~irq[t]

\* thread t is inside SpinLock::irqsave_lock or SpinLock::irqsave_read
InIrqsave(t) == pc[t].op \in {"irqsave_lock", "irqsave_read"}

\* C30: once SpinLock::irqsave_lock / irqsave_read has disabled interrupts they
\* stay disabled until the call returns, whatever the number of failed
\* attempts, and then for as long as the guard returned holds the lock
C30_MaskedThroughWait ==
    /\ [][\A t \in Threads :
            (InIrqsave(t) /\ ~irq[t] /\ InIrqsave(t)') => ~irq'[t]]_vars
    /\ [](\A t \in Threads, g \in RWSlots :
            (guard[t][g].held /\ guard[t][g].via) => ~irq[t])

\* the critical sections completed by all threads
TotalDone == LET S[n \in 0 .. NThreads] == IF n = 0 THEN 0 ELSE S[n - 1] + done[n]
             IN S[NThreads]

\* C27: when threads each read, increment and write the value protected by a
\* SpinLock under lock(), no update is lost: the value is the number of
\* critical sections completed; and the value a holder has read is still the
\* protected value (it is the one the previous holder wrote, and nobody else
\* writes while the guard is held)
C27_NoLostUpdate ==
    /\ data = TotalDone
    /\ \A t \in Threads : IsSome(local[t]) => Unwrap(local[t]) = data

\* both threads have run all their critical sections and dropped their guards
C27_Witness ==
    /\ \A t \in CsThreads : done[t] = MaxRounds /\ pc[t] = Idle /\ guard[t][1] = NoGuard
    /\ data = MaxRounds + MaxRounds

\* the operations that wait for the lock
Blocking == {"lock", "read", "irqsave_lock", "irqsave_read"}
\* thread t is inside a waiting operation and has not obtained the lock
Waiting(t) == pc[t].op \in Blocking /\ pc[t].ph \in {"enter", "try"}
\* no other thread than t is inside an acquisition
NoCompetition(t) == \A u \in Threads \ {t} : pc[u].op \notin SpinOps

\* C25: lock, read, irqsave_lock and irqsave_read return only with a guard
\* that holds the lock; and a waiting call returns once no other thread
\* starts an acquisition any more (every holder drops its guard, and the
\* waiting thread keeps running)
C25_NeverFails ==
    /\ [][\A t \in Threads :
            (pc[t].op \in Blocking /\ pc[t].ph # "ret" /\ pc'[t].ph = "ret") =>
                /\ pc'[t].res = "Some"
                /\ guard'[t][pc[t].g].held
                /\ guard'[t][pc[t].g].l = pc[t].l]_vars
    /\ \A t \in Threads :
          []((Waiting(t) /\ []NoCompetition(t)) => <>(pc[t].ph = "ret"))

\* a thread waits in lock() while the thread that holds the write guard is
\* dropping it
C25_Witness ==
    \E t \in Threads, u \in Threads :
        /\ pc[t].op = "lock" /\ pc[t].ph = "try"
        /\ pc[u].op = "drop"
        /\ guard[u][1].held /\ guard[u][1].mode = "w" /\ guard[u][1].l = pc[t].l

\* the operations that acquire the write lock (write is lock;
\* UniqueListHead::lock is irqsave_lock on the lock of the owner)
WriteAcq == {"lock", "irqsave_lock"} \cup OneShots
\* thread t is inside a write acquisition of a lock of which it holds a guard
SelfConflict(t) ==
    /\ pc[t].op \in WriteAcq
    /\ pc[t].ph \in {"enter", "try"}
    /\ \E g \in Slots : Live(guard[t][g]) /\ guard[t][g].l = pc[t].l
\* the program has aborted in thread t (no operation of spinlock.rs or
\* types.rs has such an exit)
Aborted(t) == pc[t].op = "abort"

\* C24: a write acquisition of a lock of which the same thread holds a guard
\* does not obtain the lock and ends in an abort
C24_ConflictIsFatal ==
    /\ [][\A t \in Threads : SelfConflict(t) => SelfConflict(t)' \/ Aborted(t)']_vars
    /\ \A t \in Threads : [](SelfConflict(t) => <>Aborted(t))

\* C26: with two readers whose read guards keep overlapping, every read
\* guard is dropped again and every thread keeps running, and yet from the
\* moment a read guard is held no write guard is ever obtained: a thread that
\* is waiting in lock() waits for ever
C26_WriterStarves ==
    /\ \A t \in StreamReaders : [](guard[t][1].held => <>(~guard[t][1].held))
    /\ [](reader_count(1) >= 1 => [](writer_count(1) = 0))
    /\ []((Waiting(StreamWriter) /\ reader_count(1) >= 1) => []Waiting(StreamWriter))

\* the writer is waiting in lock() while both readers hold a read guard
C26_Witness ==
    /\ pc[StreamWriter].op = "lock"
    /\ pc[StreamWriter].ph = "try"
    /\ reader_count(1) = Cardinality(StreamReaders)
    /\ \A t \in StreamReaders : guard[t][1].held

\* C23: whenever the callers of ISpinLock 2 have caught up with the callers of
\* SpinLock 1, the two locks are in the same state and every caller of
\* SpinLock 1 has the interrupt-enable state of its twin, also while it waits
C23_SameContract ==
    AllSynced =>
        /\ writer_count(1) = writer_count(2)
        /\ reader_count(1) = reader_count(2)
        /\ \A t \in PairThreads : irq[t] = irq[Twin(t)]

\* thread t is inside SpinLock::try_irqsave_lock (which try_irqsave_write
\* calls) or SpinLock::try_irqsave_read
InTryIrqsave(t) == pc[t].op \in {"try_irqsave_lock", "try_irqsave_read"}

\* C31: no step a thread takes in try_irqsave_lock / try_irqsave_read changes
\* a lock except the attempt that succeeds; a call that returns None has created no guard
\* and leaves interrupts as they were when it was called (thread 1, whose
\* interrupts are enabled or disabled at the call); a call that returns a guard
\* returns it with the one interrupt guard the call created, holding the
\* lock, and keeps no second one for itself
C31_FailedTryIrqsave ==
    /\ [][\A t \in Threads :
            (/\ InTryIrqsave(t) \/ InTryIrqsave(t)'
             /\ pc'[t] # pc[t]
             /\ pc'[t].res # "Some") =>
                \A l \in Locks : writers'[l] = writers[l] /\ readers'[l] = readers[l]]_vars
    /\ [](\A t \in Threads :
            (InTryIrqsave(t) /\ pc[t].ph = "ret" /\ pc[t].res = "None") =>
                /\ guard[t][pc[t].g] = NoGuard
                /\ pc[t].irq_guard = None
                /\ Traced(t) => irq[t] = hist.base)
    /\ [](\A t \in Threads :
            (InTryIrqsave(t) /\ pc[t].ph = "ret" /\ pc[t].res = "Some") =>
                /\ guard[t][pc[t].g].held
                /\ IsSome(guard[t][pc[t].g].irq_guard)
                /\ pc[t].irq_guard = None
                /\ ~irq[t]
                /\ Traced(t) => guard[t][pc[t].g].irq_guard = Some(hist.base))

\* thread 1, called with interrupts enabled, is returning None from a
\* try_irqsave operation that found the lock held by another thread
C31_Witness ==
    /\ InTryIrqsave(1)
    /\ pc[1].ph = "ret"
    /\ pc[1].res = "None"
    /\ hist.base
    /\ irq[1]
    /\ ~Unlocked(pc[1].l)

\* thread 1 took two guards by irqsave operations, the first with interrupts
\* enabled, the second while it held the first, and has done nothing else since
NestedIrqPair ==
    /\ hist.ep = "clean"
    /\ hist.acq = 2
    /\ hist.depth = 2
    /\ hist.base

\* C32: on two nested guards obtained by irqsave operations, the outer one
\* with interrupts enabled, take_irq_guard (in either direction) leaves the
\* interrupt state as it is, and afterwards interrupts are disabled for as long
\* as one of the two guards holds its lock
C32_TakeKeepsMasked ==
    /\ [][(pc[1].op = "take_irq_guard" /\ pc[1].ph = "exec" /\ NestedIrqPair) =>
             irq'[1] = irq[1]]_vars
    /\ []((/\ hist.ep = "moved"
           /\ hist.depth = 2
           /\ hist.base
           /\ \E g \in Slots : guard[1][g].held) => ~irq[1])

\* C33: when From lies before To, Relative::offset() returns a usize, namely
\* 2^UsizeBits minus the distance of the two fields, which is
\* From::offset() - To::offset() modulo 2^UsizeBits; and the address of the
\* field To plus that offset, in wrapping arithmetic, is the address of the
\* field From of the same host
C33_RelativeWraps ==
    from_off < to_off =>
        /\ IsSome(rel) =>
              /\ Unwrap(rel) \in Usize
              /\ Unwrap(rel) = UsizeRange - (to_off - from_off)
        /\ IsSome(got_lock) => Unwrap(got_lock) = host + from_off

\* From lies before To in a host that is not at address 0, and From has been
\* located from To
C33_Witness ==
    /\ from_off < to_off
    /\ host > 0
    /\ IsSome(rel)
    /\ Unwrap(rel) > to_off
    /\ got_lock = Some(host + from_off)

\* C34: Nested::offset() never overflows: for every S::offset(), a wrapped
\* offset of a Relative adapter included, and every T::offset(), zero or not,
\* it returns (S::offset() + T::offset()) modulo 2^UsizeBits
C34_NestedNeverOverflows ==
    IsSome(nest) =>
        /\ ~Unwrap(nest).panic
        /\ Unwrap(nest).value = (s_off + t_off) % UsizeRange

\* C37: write_bytes and read_bytes called with an empty buffer transfer no
\* byte; they call release_bus exactly when first_transaction is false; they
\* return the error of release_bus if it was called and failed, and
\* InvalidParam otherwise
C37_EmptyBuffer ==
    (IsSome(out) /\ io.len = 0) =>
        /\ Unwrap(out).sent = 0
        /\ Unwrap(out).released = ~io.first
        /\ (Unwrap(out).released /\ io.hw.release \in HalErrors) =>
              Unwrap(out).res = io.hw.release
        /\ ~(Unwrap(out).released /\ io.hw.release \in HalErrors) =>
              Unwrap(out).res = "InvalidParam"

\* write_bytes, called with an empty buffer after the first operation of a
\* transaction, has returned the error of release_bus
C37_Witness ==
    /\ io.kind = "Write"
    /\ io.len = 0
    /\ ~io.first
    /\ io.hw.release = "Busy"
    /\ IsSome(out)
    /\ Unwrap(out).res = "Busy"
    /\ Unwrap(out).released

\* C35: from its set_address to its last operation a transaction holds the
\* bus lock, and its operations run with the target address it has set
C35_TransactionAtomic ==
    \A t \in I2cThreads :
        /\ i2c[t].ph \in {"lock2", "data"} => i2c[t].held >= 1
        /\ i2c[t].ph = "data" => tar = i2c[t].addr

\* the operations of a transaction run with the target address it has set
C35_OwnAddress ==
    \A t \in I2cThreads : i2c[t].ph = "data" => tar = i2c[t].addr

\* the guards of the bus lock that the threads hold
BusGuards == LET S[n \in 0 .. NThreads] == IF n = 0 THEN 0 ELSE S[n - 1] + i2c[n].held
             IN S[NThreads]

\* thread t is in no transaction, or in one that has released every guard and
\* is returning
Outside(t) == i2c[t].ph \in {"idle", "ret"}

\* C36: a transaction that returns, with Ok, with EACCES or with the error of
\* an operation, holds no guard of the bus lock, and when no transaction is in
\* progress the lock is Unlocked and try_lock succeeds; the second lock() of
\* a transaction is called when the transaction holds no guard
C36_LockReleased ==
    /\ \A t \in I2cThreads : Outside(t) => i2c[t].held = 0
    /\ \A t \in I2cThreads : i2c[t].ph = "lock2" => i2c[t].held = 0
    /\ writer_count(BusLock) = BusGuards
    /\ (\A t \in I2cThreads : Outside(t)) => Unlocked(BusLock) /\ try_lock(BusLock).ok

\* one transaction is returning the error of an operation, the other EACCES,
\* and the lock is Unlocked
C36_Witness ==
    /\ i2c[1].ph = "ret"
    /\ i2c[1].res = "EIO"
    /\ i2c[2].ph = "ret"
    /\ i2c[2].res = "EACCES"
    /\ Unlocked(BusLock)

\* the product TICKS_PER_SECOND * ns over the integers, in halves
WideProduct == u32_mul(rate, ns).wide

\* floor(TICKS_PER_SECOND * ns / 1_000_000_000) over the integers: at most
\* five times the tick rate
ExactTicks ==
    CHOOSE n \in 0 .. 5 * rate :
        /\ Le(u32_mul(n, NANOS).wide, WideProduct)
        /\ ~Le(u32_mul(n + 1, NANOS).wide, WideProduct)

\* C39: delay_ns(ns) does not overflow; it yields once when
\* floor(TICKS_PER_SECOND * ns / 1_000_000_000) is 0 and otherwise suspends
\* for that number of ticks
C39_DelayTicks ==
    IsSome(slept) =>
        /\ ~Unwrap(slept).panic
        /\ Unwrap(slept).ticks = ExactTicks
        /\ Unwrap(slept).call = IF ExactTicks = 0 THEN "yield_me" ELSE "suspend_me_for"

\* C39, for the arguments whose product with TICKS_PER_SECOND is a u32
C39_SmallDelays ==
    (IsSome(slept) /\ ~u32_mul(rate, ns).overflow) =>
        /\ ~Unwrap(slept).panic
        /\ Unwrap(slept).ticks = ExactTicks
        /\ Unwrap(slept).call = IF ExactTicks = 0 THEN "yield_me" ELSE "suspend_me_for"

\* the devices of the list on which M::probe succeeds, by position
Matching(m) == {i \in 1 .. Len(devs) : M_probe(m, devs[i])}
FirstMatch(m) == CHOOSE i \in Matching(m) : \A j \in Matching(m) : i <= j

\* thread t is in probe_driver under the read guard / in register_device
\* under the write guard
Probing(t) == bus[t].ph \in {"for", "after"}
Registering(t) == bus[t].ph \in {"insert", "inserted"}

\* C38: when the loop of probe_driver has ended (the read guard is still
\* held), no device was matched iff no registered device makes M::probe
\* succeed, and otherwise the device matched is the first of the list on which
\* M::probe succeeds; probe_driver returns ENODEV in the first case and the
\* driver of that device in the second; a probe_driver under its read guard
\* never overlaps a register_device under its write guard; and a step never
\* removes a device: it leaves the list alone or puts one device in front
C38_ProbeDriver ==
    /\ [](\A t \in BusThreads :
            bus[t].ph = "after" =>
                /\ bus[t].acc.matched = (Matching(bus[t].m) # {})
                /\ bus[t].acc.matched => bus[t].acc.driver = devs[FirstMatch(bus[t].m)])
    /\ [](\A t \in BusThreads :
            bus[t].ph = "ret" =>
                bus[t].res = IF bus[t].acc.matched THEN Driver(bus[t].acc.driver)
                             ELSE ENODEV)
    /\ [](\A t \in BusThreads, u \in BusThreads : ~(Probing(t) /\ Registering(u)))
    /\ [][devs' = devs \/ \E d \in Devices : devs' = <<d>> \o devs]_vars

\* probe_driver has passed a device that does not match and stopped at the
\* second of two devices that match
C38_Witness ==
    \E t \in BusThreads :
        /\ bus[t].ph = "after"
        /\ Len(devs) >= 2
        /\ bus[t].at = 2
        /\ bus[t].acc.matched
        /\ bus[t].acc.driver = devs[2]

====
